---- MODULE Spec2Model ----
(***************************************************************************)
(* Model of the RAG pipeline's file synchronisation engine:                *)
(*   rag_pipeline/Local_Files/file_watcher.py   (LocalFilesWatcher)        *)
(*   rag_pipeline/Google_Drive/drive_watcher.py (GoogleDriveWatcher)       *)
(*   rag_pipeline/common/sync_manager.py        (PipelineSyncManager)      *)
(* One check_for_changes call is one atomic step (the loop is single-      *)
(* threaded); the outcomes of file reads, extraction, store calls and      *)
(* state saves are inputs chosen with \E.  Modified times are ISO-8601 UTC *)
(* strings in the code, compared as strings; strings of that one format    *)
(* order as the instants do, so they are modelled as integers 1..MaxTime.  *)
(***************************************************************************)
EXTENDS Integers, FiniteSets, Sequences, TLC

\* ---------------------------------------------------------------- bounds
MaxTime == 2

\* the supported, visible files of the watch directory, named by their file id
LocalIds == {"a", "b"}
\* "x" is a file whose MIME type is not in supported_mime_types, "y" a hidden file
\* (its name, or a directory above it, starts with a dot)
LocalFiles == LocalIds \cup {"x", "y"}
is_supported_file(i) == i # "x"
is_hidden(i) == i = "y"
\* the modified times a file of the watch directory can be written with: file "a"
\* is created, modified, set back and removed, file "b" only created and removed
FileTimes(i) == IF i = "a" THEN 1..MaxTime ELSE {1}

\* the last instant of the Drive clock
MaxClock == 2

\* the Drive files of a supported MIME type, named by their file id
DriveIds == {"g", "h"}
\* "u" is a Drive item whose MIME type starts with no entry of supported_mime_types
\* (a folder, for one)
DriveFiles == DriveIds \cup {"u"}
drive_supported(i) == i # "u"
NoFile == [mtime |-> 0, trashed |-> FALSE]

\* the most files one list call returns (pageSize = 100 in the code)
PageSize == 2

\* what GoogleDriveWatcher.process_file does with a listed file that is not trashed:
\* it ingests ("ok"), returns early (download failed or no text: "skipped"), returns
\* after process_file_for_rag returned False ("rag_failed"), or raises ("raised")
DriveOutcomes == {"ok", "skipped", "rag_failed", "raised"}

EmptyMap == [i \in {} |-> 0]

\* outcomes of LocalFilesWatcher.process_file: it returns True ("ok"), or False
\* because the file cannot be read ("read_error"), because no text is extracted
\* ("no_text"), or because process_file_for_rag returned False or anything raised
\* ("rag_failed")
IngestOutcomes == {"ok", "read_error", "no_text", "rag_failed"}

VARIABLES
    fs,            \* watch directory content: id -> modified time, 0 = no such file
    dirExists,     \* os.path.exists(watch_directory)
    pc,            \* "down" | "single" | "watch" | "loop" | "done"
    known_files,   \* LocalFilesWatcher.known_files
    initialized,   \* LocalFilesWatcher.initialized
    docs,          \* documents table: the file_ids that have rows
    state_row,     \* rag_pipeline_state row of the local pipeline
    lastOp,        \* "check" right after a check_for_changes call, else "other"
    cyc,           \* the calls and results of the latest check_for_changes call
    purged,        \* id -> the watermark it had when this process handled its
                   \* deletion, for the ids not recorded in known_files since
    exit_code,     \* the code of the sys.exit the latest step of main ran, else Running
    signalled,     \* this process has handled a SIGTERM or SIGINT
    drive,         \* Google Drive files: id -> [mtime, trashed], mtime 0 = no such file (404)
    now,           \* the clock that stamps Drive modifications and the cursor
    service,       \* GoogleDriveWatcher.service is set
    last_check_time,       \* GoogleDriveWatcher.last_check_time, the listing cursor
    cfg_last_check_time,   \* last_check_time in the Drive pipeline's config.json
    drive_known_files,     \* GoogleDriveWatcher.known_files
    drive_state_row,       \* rag_pipeline_state row of the Drive pipeline
    drive_pc,      \* "down" | "single" | "loop" | "done"
    drive_lastOp,  \* "check" right after a Drive check_for_changes call, else "other"
    drive_cyc,     \* the calls and results of the latest Drive check_for_changes call
    drive_exit_code,   \* as exit_code, for the Drive pipeline's main
    drive_signalled,   \* as signalled, for the Drive pipeline's process
    tracker_pc,    \* the status tracker of the running process: "none" | "init" |
                   \* "started" | "stopping" | "stopped" | "stop_failed"
    stop_heartbeat,    \* SupabaseStatusTracker.stop_heartbeat
    hb_pc,         \* where the heartbeat thread is: "none" | "test" | "sleep" | "woke" |
                   \* "write" | "ended"
    store_call,    \* the latest save_pipeline_state / load_pipeline_state call
    folders,       \* the Drive folder graph: folder -> the folders that have it as parent
    walked,        \* the result of the latest get_folder_contents pass
    creds_env,     \* what authenticate finds: token, credentials file, console
    auth_result,   \* how the latest authenticate call ended
    step,          \* where a stepwise Drive check_for_changes call is: "idle" |
                   \* "listed" | "cursor" | "saved"
    listed_files,  \* the files list of the running get_changes call: id -> the
                   \* metadata the listing returned
    indexed,       \* Drive id -> the modified time of the content its documents
                   \* were made from, 0 = none
    servers,       \* MCPManager.servers: the one server's MCPServerConfig with its
                   \* runtime state, or NoServer
    connections,   \* the server has an entry in MCPManager.connections
    health_check_tasks,   \* the server has a health-check task, and it is running
    server_up,     \* a GET of the server's URL answers 200
    mcp_call,      \* the latest MCPManager call or health-check pass and its results
    data,          \* PipelineStatus.data: the file lists and the two totals
    moves,         \* the clock that stamps completed_at: the files moved so far
    status_op,     \* the latest PipelineStatus call: its name and arguments
    validate_call  \* the latest validate_sync_state call: its arguments and result

watcher_vars == <<fs, dirExists, pc, known_files, initialized, lastOp, cyc, purged,
                  exit_code, signalled>>
local_vars == <<watcher_vars, state_row>>
drive_vars == <<drive, now, service, last_check_time, cfg_last_check_time,
                drive_known_files, drive_state_row, drive_pc, drive_lastOp, drive_cyc,
                drive_exit_code, drive_signalled>>
status_vars == <<tracker_pc, stop_heartbeat, hb_pc, store_call>>
walk_vars == <<folders, walked>>
auth_vars == <<creds_env, auth_result>>
step_vars == <<step, listed_files, indexed>>
mcp_vars == <<servers, connections, health_check_tasks, server_up, mcp_call>>
pipeline_status_vars == <<data, moves, status_op>>
more_vars == <<step_vars, mcp_vars, pipeline_status_vars, validate_call>>
aux_vars == <<status_vars, walk_vars, auth_vars, more_vars>>
vars == <<local_vars, docs, drive_vars, aux_vars>>

\* exit_code while main has not exited
Running == -1

ZeroStats == [files_processed |-> 0, files_deleted |-> 0, errors |-> 0, orphaned_deleted |-> 0]
ZeroSync == [orphaned_found |-> 0, deleted_success |-> 0, deleted_failed |-> 0]

\* procCalls: the files handed to process_file; reprocessed: those of them that
\* were in known_files before; readded: those of them whose deletion this process
\* had handled, with the watermark they had then; noText: those whose extraction gave no text; ragCalls: those for which
\* process_file_for_rag was called; ingested: those for which process_file returned
\* True; deleteCalls / deleteFailed: the ids the deleted-files loop passed to
\* delete_document_by_file_id, and those for which it raised; atSync: the file_ids in
\* the documents table when sync_deletions was called; orphanCalls: how often
\* sync_deletions called the delete handler for each id; orphanFailed: the ids for
\* which that call raised
NoCycle ==
    [procCalls |-> {}, reprocessed |-> {}, readded |-> EmptyMap, noText |-> {}, ragCalls |-> {}, ingested |-> {},
     deleteCalls |-> {}, deleteFailed |-> {},
     readOk |-> TRUE, atSync |-> {}, orphanCalls |-> EmptyMap, orphanFailed |-> {},
     stats |-> ZeroStats, sync |-> ZeroSync, saveOk |-> TRUE]

NoDriveCycle ==
    [failed |-> FALSE, authFailed |-> FALSE, listed |-> {}, downloads |-> {},
     ragCalls |-> {}, ingested |-> {}, raised |-> {}, deleted |-> {},
     deleteCalls |-> [i \in DriveFiles |-> 0], stats |-> ZeroStats]

\* the values of a last_check_time argument or column: None (NULL), a datetime,
\* and the ISO-8601 text that datetime.isoformat() makes of a datetime
NoneT == [kind |-> "None", at |-> 0]
datetime(t) == [kind |-> "datetime", at |-> t]
isoformat(d) == [kind |-> "str", at |-> d.at]

\* datetime.now(timezone.utc) in the local watcher, which has no clock in this model
utc_now == datetime(1)

\* the most that last_heartbeat, a time stamp, is told apart from its first value
MaxBeats == 1

\* the rows of rag_pipeline_state that have one pipeline_id: how many there are
\* (present = there is one), and the columns of the first one
NoRow ==
    [present |-> FALSE, rows |-> 0, known_files |-> EmptyMap, last_check_time |-> NoneT,
     server_status |-> "none", last_heartbeat |-> 0]

\* ------------------------------------------------------- document store
\* common.db_handler.delete_document_by_file_id: removes every row of each file_id in S
delete_document_by_file_id(D, S) == D \ S

\* common.db_handler.process_file_for_rag: replaces the rows of each file_id in S
process_file_for_rag(D, S) == D \cup S

\* -------------------------------------------------------- sync manager
\* a read that answers with every id it has seen when the select fails
get_all_document_file_ids_stale(D, readOk) == D

\* readOk = the select on the documents table did not raise
get_all_document_file_ids(D, readOk) == IF readOk THEN D ELSE {}

find_orphaned_documents(D, current_file_ids, readOk) ==
    get_all_document_file_ids(D, readOk) \ current_file_ids

\* a delete handler that raises ends the loop: no other orphan is deleted
sync_deletions_abort(D, current_file_ids, readOk, okSet) ==
    LET orphaned_ids == find_orphaned_documents(D, current_file_ids, readOk)
        aborted == orphaned_ids \ okSet # {}
        done == IF aborted THEN {} ELSE orphaned_ids
    IN  [docs |-> delete_document_by_file_id(D, done),
         calls |-> [i \in (IF aborted THEN orphaned_ids \ okSet ELSE orphaned_ids) |-> 1],
         failed |-> orphaned_ids \ okSet,
         stats |-> [orphaned_found |-> Cardinality(orphaned_ids),
                    deleted_success |-> Cardinality(done),
                    deleted_failed |-> IF aborted THEN 1 ELSE 0]]

\* the handler is called once per orphan; okSet = the orphans whose delete does not raise
sync_deletions(D, current_file_ids, readOk, okSet) ==
    LET orphaned_ids == find_orphaned_documents(D, current_file_ids, readOk)
        done == orphaned_ids \cap okSet
    IN  [docs |-> delete_document_by_file_id(D, done),
         calls |-> [i \in orphaned_ids |-> 1],
         failed |-> orphaned_ids \ okSet,
         stats |-> [orphaned_found |-> Cardinality(orphaned_ids),
                    deleted_success |-> Cardinality(done),
                    deleted_failed |-> Cardinality(orphaned_ids \ okSet)]]

\* loadOk = the select did not raise.  known_files travels as JSON, which gives
\* back a map from strings to strings as it was; last_check_time comes back as text
load_pipeline_state(row, loadOk) ==
    IF loadOk /\ row.present
      THEN [known_files |-> row.known_files, last_check_time |-> row.last_check_time]
      ELSE [known_files |-> EmptyMap, last_check_time |-> NoneT]

\* a save that inserts a row whether or not there is one
save_pipeline_state_insert_only(row, K, t, saveOk) ==
    IF saveOk
      THEN [row EXCEPT !.present = TRUE, !.rows = @ + 1, !.known_files = K,
                       !.last_check_time = IF t = NoneT THEN @ ELSE isoformat(t)]
      ELSE row

\* saveOk = neither the select nor the update or insert raised (the function
\* returns True).  `if last_check_time:` leaves the column out for None
save_pipeline_state(row, K, t, saveOk) ==
    IF saveOk
      THEN [row EXCEPT !.present = TRUE,
                       !.rows = IF row.present THEN @ ELSE @ + 1,
                       !.known_files = K,
                       !.last_check_time = IF t = NoneT THEN @ ELSE isoformat(t)]
      ELSE row

\* -------------------------------------------------------- status tracker
\* a time stamp column is set to the current time
touch(row) == [row EXCEPT !.last_heartbeat = IF @ < MaxBeats THEN @ + 1 ELSE @]

\* an upsert that writes a whole new row over the one there is
tracker_upsert_replace(row) ==
    touch([NoRow EXCEPT !.present = TRUE, !.rows = 1, !.server_status = "online"])

\* SupabaseStatusTracker.start, the upsert on pipeline_id: it sets the status
\* columns of the row there is, or inserts a row whose other columns are empty
tracker_upsert(row) ==
    IF row.present
      THEN touch([row EXCEPT !.server_status = "online"])
      ELSE touch([NoRow EXCEPT !.present = TRUE, !.rows = 1, !.server_status = "online"])

\* the update of status columns in stop, update_status and _heartbeat_loop:
\* with no row it changes nothing
status_update(row, status) ==
    IF row.present
      THEN touch([row EXCEPT !.server_status = IF status = "keep" THEN @ ELSE status])
      ELSE row

\* -------------------------------------------------------- local watcher
\* the walk does not skip hidden or unsupported files
scan_directory_all(fsv, dex) ==
    IF ~dex THEN EmptyMap
    ELSE [i \in {j \in DOMAIN fsv : fsv[j] # 0} |-> fsv[i]]

scan_directory(fsv, dex) ==
    IF ~dex THEN EmptyMap
    ELSE [i \in {j \in DOMAIN fsv : fsv[j] # 0 /\ ~is_hidden(j) /\ is_supported_file(j)}
            |-> fsv[i]]

\* a file whose modified time equals its watermark counts as modified
changed_files_ge(K, S) == {i \in DOMAIN S : i \notin DOMAIN K \/ S[i] >= K[i]}

\* modified files are not detected
changed_files_new_only(K, S) == {i \in DOMAIN S : i \notin DOMAIN K}

\* files that are not in known_files are not detected
changed_files_modified_only(K, S) == {i \in DOMAIN S \cap DOMAIN K : S[i] > K[i]}

changed_files(K, S) == {i \in DOMAIN S : i \notin DOMAIN K \/ S[i] > K[i]}

\* removals are never detected
deleted_file_ids_none(K, S) == {}

deleted_file_ids(K, S) == {i \in DOMAIN K : i \notin DOMAIN S}

\* process_file records a new file but leaves the watermark of a known file alone
known_after_process_stale(K, S, okIds) ==
    [i \in DOMAIN K \cup okIds |-> IF i \in DOMAIN K THEN K[i] ELSE S[i]]

\* process_file never records what it ingested
known_after_process_none(K, S, okIds) == K

\* known_files after process_file succeeded for the ids in okIds
known_after_process(K, S, okIds) ==
    [i \in DOMAIN K \cup okIds |-> IF i \in okIds THEN S[i] ELSE K[i]]

\* the deleted-files loop forgets to pop the id
known_after_delete_keep(K, gone) == K

known_after_delete(K, gone) == [i \in DOMAIN K \ gone |-> K[i]]

\* main, single-run mode: the exit code after the one cycle
single_run_exit_zero(errors) == 0

single_run_exit(errors) == IF errors > 0 THEN 1 ELSE 0

\* one whole LocalFilesWatcher.check_for_changes call; in single-run mode main then
\* exits with the code that its errors count gives
CheckForChanges ==
    /\ pc \in {"single", "loop"}
    /\ LET S == scan_directory(fs, dirExists)
           changed == changed_files(known_files, S)
           deleted == deleted_file_ids(known_files, S)
       IN  \E out \in [changed -> IngestOutcomes], delOk \in SUBSET deleted,
              saveOk \in BOOLEAN :
             LET okIds == {i \in changed : out[i] = "ok"}
                 D1 == process_file_for_rag(docs, okIds)
                 K1 == known_after_process(known_files, S, okIds)
                 D2 == delete_document_by_file_id(D1, delOk)
                 K2 == known_after_delete(K1, delOk)
                 current_file_ids == DOMAIN K2
                 \* a failed read of the documents table returns the empty set: it
                 \* differs from a successful read only when there are orphans
                 readable == IF find_orphaned_documents(D2, current_file_ids, TRUE) = {}
                               THEN {TRUE} ELSE BOOLEAN
             IN  \E readOk \in readable :
                 \E orphanOk \in SUBSET find_orphaned_documents(D2, current_file_ids, readOk) :
                   LET sync == sync_deletions(D2, current_file_ids, readOk, orphanOk)
                   IN  /\ docs' = sync.docs
                       /\ known_files' = K2
                       /\ purged' = [i \in (DOMAIN purged \cup delOk) \ okIds |->
                                       IF i \in delOk THEN K1[i] ELSE purged[i]]
                       /\ state_row' = save_pipeline_state(state_row, K2, utc_now, saveOk)
                       /\ cyc' = [procCalls |-> changed,
                                  reprocessed |-> changed \cap DOMAIN known_files,
                                  readded |-> [i \in changed \cap DOMAIN purged |-> purged[i]],
                                  noText |-> {i \in changed : out[i] = "no_text"},
                                  ragCalls |-> {i \in changed : out[i] \in {"ok", "rag_failed"}},
                                  ingested |-> okIds,
                                  deleteCalls |-> deleted,
                                  deleteFailed |-> deleted \ delOk,
                                  readOk |-> readOk,
                                  atSync |-> D2,
                                  orphanCalls |-> sync.calls,
                                  orphanFailed |-> sync.failed,
                                  stats |-> [files_processed |-> Cardinality(okIds),
                                             files_deleted |-> Cardinality(delOk),
                                             errors |-> Cardinality(changed \ okIds)
                                                        + Cardinality(deleted \ delOk),
                                             orphaned_deleted |-> sync.stats.deleted_success],
                                  sync |-> sync.stats,
                                  saveOk |-> saveOk]
    /\ pc' = IF pc = "single" THEN "done" ELSE "loop"
    /\ exit_code' = IF pc = "single" THEN single_run_exit(cyc'.stats.errors) ELSE Running
    /\ lastOp' = "check"
    /\ UNCHANGED <<fs, dirExists, initialized, signalled>>
    /\ UNCHANGED <<drive_vars, aux_vars>>

\* LocalFilesWatcher.__init__ with load_config: a new process.  The state row is
\* read only when config.json could be read; a missing watch directory is created
StartWith(m, cfgOk, loadOk, mkOk) ==
    LET loaded == IF cfgOk THEN load_pipeline_state(state_row, loadOk).known_files
                  ELSE EmptyMap
    IN  /\ known_files' = loaded
        /\ initialized' = (loaded # EmptyMap)
        /\ IF dirExists
             THEN /\ pc' = m
                  /\ UNCHANGED <<fs, dirExists>>
             ELSE IF mkOk
                    THEN /\ pc' = m
                         /\ dirExists' = TRUE
                         /\ fs' = [i \in LocalFiles |-> 0]
                    ELSE /\ pc' = "down"
                         /\ UNCHANGED <<fs, dirExists>>

\* init_status_tracker raises (SUPABASE_URL or the service key is not set): main
\* ends in its except clause before it constructs the watcher
StartFails ==
    /\ pc' = "down"
    /\ known_files' = EmptyMap
    /\ initialized' = FALSE
    /\ UNCHANGED <<fs, dirExists>>

\* main up to the watcher's first call: a new process.  An exception on the way
\* (StartFails, or makedirs in the constructor) ends it with exit code 2.  The status
\* tracker that main creates next to the watcher is the component of TrackerStart,
\* TrackerStop and the Heartbeat steps below
Start ==
    /\ pc \in {"down", "done"}
    /\ \/ StartFails
       \/ \E m \in {"single", "watch"}, cfgOk \in BOOLEAN :
            \E loadOk \in IF cfgOk THEN BOOLEAN ELSE {TRUE} :
               \E mkOk \in IF dirExists THEN {TRUE} ELSE BOOLEAN :
                  StartWith(m, cfgOk, loadOk, mkOk)
    /\ exit_code' = IF pc' = "down" THEN 2 ELSE Running
    /\ signalled' = FALSE
    /\ lastOp' = "other"
    /\ cyc' = NoCycle
    /\ purged' = EmptyMap
    /\ UNCHANGED <<docs, state_row>>
    /\ UNCHANGED <<drive_vars, aux_vars>>

\* LocalFilesWatcher.watch_for_changes up to its loop: the initial scan
WatchStart ==
    /\ pc = "watch"
    /\ IF initialized
         THEN /\ UNCHANGED <<known_files, docs>>
              /\ cyc' = NoCycle
         ELSE LET initial_files == scan_directory(fs, dirExists)
              IN  \E out \in [DOMAIN initial_files -> IngestOutcomes] :
                    LET okIds == {i \in DOMAIN initial_files : out[i] = "ok"}
                    IN  /\ docs' = process_file_for_rag(docs, okIds)
                        /\ known_files' = known_after_process(known_files, initial_files,
                                                              DOMAIN initial_files)
                        /\ cyc' = [NoCycle EXCEPT
                                     !.procCalls = DOMAIN initial_files,
                                     !.noText = {i \in DOMAIN initial_files : out[i] = "no_text"},
                                     !.ragCalls = {i \in DOMAIN initial_files :
                                                     out[i] \in {"ok", "rag_failed"}},
                                     !.ingested = okIds]
    /\ initialized' = TRUE
    /\ pc' = "loop"
    /\ lastOp' = "other"
    /\ exit_code' = Running
    /\ UNCHANGED <<fs, dirExists, state_row, purged, signalled>>
    /\ UNCHANGED <<drive_vars, aux_vars>>

\* the process is ended from outside (SIGKILL, crash, container removed)
Stop ==
    /\ pc # "down"
    /\ pc' = "down"
    /\ known_files' = EmptyMap
    /\ initialized' = FALSE
    /\ lastOp' = "other"
    /\ cyc' = NoCycle
    /\ purged' = EmptyMap
    /\ exit_code' = Running
    /\ signalled' = FALSE
    /\ UNCHANGED <<fs, dirExists, docs, state_row>>
    /\ UNCHANGED <<drive_vars, aux_vars>>

\* SIGTERM or SIGINT reaches a running process: the handler installed by main calls
\* cleanup, which calls status_tracker.stop() (TrackerStop) and returns; the
\* interrupted code goes on where it was
Signal ==
    /\ pc \in {"single", "watch", "loop"}
    /\ ~signalled
    /\ signalled' = TRUE
    /\ lastOp' = "other"
    /\ cyc' = NoCycle
    /\ exit_code' = Running
    /\ UNCHANGED <<fs, dirExists, pc, known_files, initialized, docs, state_row, purged>>
    /\ UNCHANGED <<drive_vars, aux_vars>>

\* ------------------------------------------------- the watch directory
\* a file of F is created or its modified time changes
WriteFileIn(F) ==
    /\ dirExists
    /\ \E i \in F :
       \E t \in FileTimes(i) :
         /\ fs[i] # t
         /\ fs' = [fs EXCEPT ![i] = t]
    /\ lastOp' = "other"
    /\ cyc' = NoCycle
    /\ UNCHANGED <<dirExists, pc, known_files, initialized, docs, state_row, purged, signalled>>
    /\ exit_code' = Running
    /\ UNCHANGED <<drive_vars, aux_vars>>

RemoveFileIn(F) ==
    /\ dirExists
    /\ \E i \in F :
         /\ fs[i] # 0
         /\ fs' = [fs EXCEPT ![i] = 0]
    /\ lastOp' = "other"
    /\ cyc' = NoCycle
    /\ UNCHANGED <<dirExists, pc, known_files, initialized, docs, state_row, purged, signalled>>
    /\ exit_code' = Running
    /\ UNCHANGED <<drive_vars, aux_vars>>

\* the directory holds supported, visible files only
WriteFile == WriteFileIn(LocalIds)
RemoveFile == RemoveFileIn(LocalIds)

\* the directory holds one supported file, an unsupported one and a hidden one
ScanFiles == {"a", "x", "y"}
WriteAnyFile == WriteFileIn(ScanFiles)
RemoveAnyFile == RemoveFileIn(ScanFiles)

\* the directory becomes unreachable (volume not mounted) and comes back
DirLost ==
    /\ dirExists
    /\ dirExists' = FALSE
    /\ lastOp' = "other"
    /\ cyc' = NoCycle
    /\ UNCHANGED <<fs, pc, known_files, initialized, docs, state_row, purged, signalled>>
    /\ exit_code' = Running
    /\ UNCHANGED <<drive_vars, aux_vars>>

DirBack ==
    /\ ~dirExists
    /\ dirExists' = TRUE
    /\ lastOp' = "other"
    /\ cyc' = NoCycle
    /\ UNCHANGED <<fs, pc, known_files, initialized, docs, state_row, purged, signalled>>
    /\ exit_code' = Running
    /\ UNCHANGED <<drive_vars, aux_vars>>

\* ------------------------------------------------------- Drive watcher
\* GoogleDriveWatcher.get_changes: the files modified after the cursor, trashed or not
drive_listing(files, cursor) == {i \in DOMAIN files : files[i].mtime > cursor}

\* the answers one files().list call can give for the matching files: all of them
\* when they fit in one page, else any PageSize of them (the call sets no orderBy,
\* and nextPageToken is requested but never read)
first_page(matching) ==
    {P \in SUBSET matching :
        Cardinality(P) = IF Cardinality(matching) > PageSize THEN PageSize
                         ELSE Cardinality(matching)}

\* GoogleDriveWatcher.check_for_deleted_files: the known files whose lookup answers
\* trashed = true or raises an exception whose text contains 'File not found' or
\* '404'.  lookupOk = the known files whose lookup reaches Drive (it answers, with
\* not-found for a file that is gone); misread = the known files whose lookup
\* fails for another reason with an exception text that contains '404' (the text
\* of an HttpError quotes the request URI, and with it the file id)
check_for_deleted_files(K, files, lookupOk, misread) ==
    {i \in DOMAIN K \cap lookupOk : files[i].mtime = 0 \/ files[i].trashed}
        \cup (DOMAIN K \cap misread)

\* known_files after process_file and line 439 ran for the listed files in done
drive_known_after_process(K, files, done) ==
    [i \in DOMAIN K \cup done |-> IF i \in done THEN files[i].mtime ELSE K[i]]

\* a failed call that moves the cursor past the changes it did not list
DriveCycleFails_advances(authOk) ==
    /\ service' = (service \/ authOk)
    /\ drive_cyc' = [NoDriveCycle EXCEPT !.failed = TRUE, !.authFailed = ~authOk,
                                        !.stats.errors = 1]
    /\ last_check_time' = now
    /\ cfg_last_check_time' = now
    /\ UNCHANGED <<drive_known_files, docs>>

\* a check_for_changes call that ends in its outer except clause: authenticate
\* (authOk = FALSE) or the listing of get_changes raised, before line 261 moves
\* the cursor
DriveCycleFails(authOk) ==
    /\ service' = (service \/ authOk)
    /\ drive_cyc' = [NoDriveCycle EXCEPT !.failed = TRUE, !.authFailed = ~authOk,
                                        !.stats.errors = 1]
    /\ UNCHANGED <<last_check_time, cfg_last_check_time, drive_known_files, docs>>

\* a check_for_changes call whose listing succeeded
DriveCycleRuns(listed, cfgSaveOk, lookupOk, misread, out, delOk) ==
    LET deleted == check_for_deleted_files(drive_known_files, drive, lookupOk, misread)
        trashedL == {i \in listed : drive[i].trashed}
        raised == {i \in listed : out[i] = "raised"}
        downloads == {i \in listed \ trashedL : drive_supported(i)}
        ingested == {i \in downloads : out[i] = "ok"}
        done == listed \ raised
        D1 == delete_document_by_file_id(process_file_for_rag(docs, ingested),
                                         trashedL \ raised)
        K1 == drive_known_after_process(drive_known_files, drive, done)
        gone == deleted \cap delOk
    IN  /\ service' = TRUE
        /\ last_check_time' = now
        /\ cfg_last_check_time' = IF cfgSaveOk THEN now ELSE cfg_last_check_time
        /\ docs' = delete_document_by_file_id(D1, gone)
        /\ drive_known_files' = known_after_delete(K1, gone)
        /\ drive_cyc' = [failed |-> FALSE, authFailed |-> FALSE,
                         listed |-> listed, downloads |-> downloads,
                         ragCalls |-> {i \in downloads : out[i] \in {"ok", "rag_failed"}},
                         ingested |-> ingested,
                         raised |-> raised,
                         deleted |-> deleted,
                         deleteCalls |-> [i \in DriveFiles |->
                              (IF i \in trashedL THEN 1 ELSE 0)
                              + (IF i \in deleted THEN 1 ELSE 0)],
                         stats |-> [files_processed |-> Cardinality(done),
                                    files_deleted |-> Cardinality(gone),
                                    errors |-> Cardinality(raised)
                                               + Cardinality(deleted \ gone),
                                    orphaned_deleted |-> 0]]

\* one whole GoogleDriveWatcher.check_for_changes call
DriveCheckForChanges ==
    /\ drive_pc \in {"single", "loop"}
    /\ \/ \E authOk \in IF service THEN {TRUE} ELSE BOOLEAN :
            \E listOk \in IF authOk THEN BOOLEAN ELSE {FALSE} :
               /\ ~(authOk /\ listOk)
               /\ DriveCycleFails(authOk)
       \/ \E listed \in first_page(drive_listing(drive, last_check_time)) :
          LET trashedL == {i \in listed : drive[i].trashed}
          IN  \E cfgSaveOk \in BOOLEAN, lookupOk \in SUBSET DOMAIN drive_known_files :
                \E misread \in SUBSET {i \in DOMAIN drive_known_files \ lookupOk :
                                          drive[i].mtime # 0 /\ ~drive[i].trashed},
                   out \in [listed -> DriveOutcomes] :
                   /\ \A i \in trashedL : out[i] \in {"ok", "raised"}
                   /\ \A i \in listed \ trashedL : ~drive_supported(i) => out[i] = "skipped"
                   /\ \E delOk \in SUBSET check_for_deleted_files(drive_known_files,
                                                         drive, lookupOk, misread) :
                        DriveCycleRuns(listed, cfgSaveOk, lookupOk, misread, out, delOk)
    /\ drive_pc' = IF drive_pc = "single" THEN "done" ELSE "loop"
    /\ drive_exit_code' = IF drive_pc = "single"
                            THEN single_run_exit(drive_cyc'.stats.errors) ELSE Running
    /\ drive_lastOp' = "check"
    /\ UNCHANGED <<drive, now, drive_state_row, drive_signalled>>
    /\ UNCHANGED <<local_vars, aux_vars>>

\* main up to the watcher's first call: a new process.  init_status_tracker raises
\* when SUPABASE_URL or the service key is not set (envOk = FALSE) and main exits
\* with code 2; GoogleDriveWatcher.__init__ with load_config raises nothing and
\* does not authenticate
DriveStart ==
    /\ drive_pc \in {"down", "done"}
    /\ \E envOk \in BOOLEAN, m \in {"single", "loop"}, cfgOk \in BOOLEAN :
         /\ drive_pc' = IF envOk THEN m ELSE "down"
         /\ last_check_time' = IF envOk /\ cfgOk THEN cfg_last_check_time ELSE 0
         /\ drive_exit_code' = IF envOk THEN Running ELSE 2
    /\ drive_signalled' = FALSE
    /\ service' = FALSE
    /\ drive_known_files' = EmptyMap
    /\ drive_lastOp' = "other"
    /\ drive_cyc' = NoDriveCycle
    /\ UNCHANGED <<drive, now, cfg_last_check_time, drive_state_row, docs>>
    /\ UNCHANGED <<local_vars, aux_vars>>

\* the process is ended from outside (SIGKILL, crash, container removed)
DriveStop ==
    /\ drive_pc # "down"
    /\ drive_pc' = "down"
    /\ service' = FALSE
    /\ drive_known_files' = EmptyMap
    /\ drive_lastOp' = "other"
    /\ drive_cyc' = NoDriveCycle
    /\ drive_exit_code' = Running
    /\ drive_signalled' = FALSE
    /\ UNCHANGED <<drive, now, last_check_time, cfg_last_check_time, drive_state_row, docs>>
    /\ UNCHANGED <<local_vars, aux_vars>>

\* SIGTERM or SIGINT reaches a running process: the handler calls cleanup, which
\* calls status_tracker.stop() and returns; `while True` goes on
DriveSignal ==
    /\ drive_pc \in {"single", "loop"}
    /\ ~drive_signalled
    /\ drive_signalled' = TRUE
    /\ drive_lastOp' = "other"
    /\ drive_cyc' = NoDriveCycle
    /\ drive_exit_code' = Running
    /\ UNCHANGED <<drive, now, service, last_check_time, cfg_last_check_time,
                   drive_known_files, drive_state_row, drive_pc, docs>>
    /\ UNCHANGED <<local_vars, aux_vars>>

\* ------------------------------------------------------ the Drive folder
Tick ==
    /\ now < MaxClock
    /\ now' = now + 1
    /\ drive_lastOp' = "other"
    /\ drive_cyc' = NoDriveCycle
    /\ UNCHANGED <<drive, service, last_check_time, cfg_last_check_time,
                   drive_known_files, drive_state_row, drive_pc, docs, drive_signalled>>
    /\ drive_exit_code' = Running
    /\ UNCHANGED <<local_vars, aux_vars>>

\* a file is created or modified (which also takes it out of the trash)
DriveWriteIn(F) ==
    /\ now > 0
    /\ \E i \in F :
         /\ drive[i] # [mtime |-> now, trashed |-> FALSE]
         /\ drive' = [drive EXCEPT ![i] = [mtime |-> now, trashed |-> FALSE]]
    /\ drive_lastOp' = "other"
    /\ drive_cyc' = NoDriveCycle
    /\ UNCHANGED <<now, service, last_check_time, cfg_last_check_time,
                   drive_known_files, drive_state_row, drive_pc, docs, drive_signalled>>
    /\ drive_exit_code' = Running
    /\ UNCHANGED <<local_vars, aux_vars>>

\* the folder holds files of supported types only
DriveWrite == DriveWriteIn(DriveIds)

\* the folder holds one file of a supported type and one item of an unsupported type
TypedFiles == {"g", "u"}
DriveWriteAny == DriveWriteIn(TypedFiles)

DriveTrash ==
    /\ \E i \in DriveFiles :
         /\ drive[i].mtime # 0 /\ ~drive[i].trashed
         /\ drive' = [drive EXCEPT ![i].trashed = TRUE]
    /\ drive_lastOp' = "other"
    /\ drive_cyc' = NoDriveCycle
    /\ UNCHANGED <<now, service, last_check_time, cfg_last_check_time,
                   drive_known_files, drive_state_row, drive_pc, docs, drive_signalled>>
    /\ drive_exit_code' = Running
    /\ UNCHANGED <<local_vars, aux_vars>>

\* a file is deleted for good
DriveDelete ==
    /\ \E i \in DriveFiles :
         /\ drive[i].mtime # 0
         /\ drive' = [drive EXCEPT ![i] = NoFile]
    /\ drive_lastOp' = "other"
    /\ drive_cyc' = NoDriveCycle
    /\ UNCHANGED <<now, service, last_check_time, cfg_last_check_time,
                   drive_known_files, drive_state_row, drive_pc, docs, drive_signalled>>
    /\ drive_exit_code' = Running
    /\ UNCHANGED <<local_vars, aux_vars>>

\* ------------------------------------- the state row and its two writers
\* the arguments of save_pipeline_state
StoreMaps == {EmptyMap} \cup {[i \in {"a"} |-> t] : t \in 1..MaxTime}
StoreTimes == {NoneT} \cup {datetime(t) : t \in 1..MaxTime}

\* op: the latest operation on the row ("save", "load", or "status" for one of the
\* tracker); ok: it did not raise; saved_K, saved_t: the arguments of the latest
\* save_pipeline_state call that returned True; loaded: what the latest
\* load_pipeline_state call returned
NoLoad == [known_files |-> EmptyMap, last_check_time |-> NoneT]
NoCall ==
    [op |-> "none", ok |-> TRUE, has_saved |-> FALSE, saved_K |-> EmptyMap,
     saved_t |-> NoneT, loaded |-> NoLoad]

status_call(ok) == [store_call EXCEPT !.op = "status", !.ok = ok, !.loaded = NoLoad]

\* main creates the tracker: SupabaseStatusTracker.__init__
ProcessStarts ==
    /\ tracker_pc = "none"
    /\ tracker_pc' = "init"
    /\ stop_heartbeat' = FALSE
    /\ UNCHANGED <<hb_pc, store_call, state_row>>
    /\ UNCHANGED <<watcher_vars, docs, drive_vars, walk_vars, auth_vars, more_vars>>

\* the process ends, and its daemon thread with it
ProcessEnds ==
    /\ tracker_pc # "none"
    /\ tracker_pc' = "none"
    /\ stop_heartbeat' = FALSE
    /\ hb_pc' = "none"
    /\ UNCHANGED <<store_call, state_row>>
    /\ UNCHANGED <<watcher_vars, docs, drive_vars, walk_vars, auth_vars, more_vars>>

\* SupabaseStatusTracker.start: the upsert, then the heartbeat thread; an exception
\* of the upsert is caught and leaves the thread unstarted
TrackerStart ==
    /\ tracker_pc = "init"
    /\ tracker_pc' = "started"
    /\ \E ok \in BOOLEAN :
         /\ state_row' = IF ok THEN tracker_upsert(state_row) ELSE state_row
         /\ hb_pc' = IF ok THEN "test" ELSE hb_pc
         /\ store_call' = status_call(ok)
    /\ stop_heartbeat' = FALSE
    /\ UNCHANGED <<watcher_vars, docs, drive_vars, walk_vars, auth_vars, more_vars>>

\* SupabaseStatusTracker.update_status
UpdateStatus ==
    /\ tracker_pc \in {"init", "started", "stopped", "stop_failed"}
    /\ \E ok \in BOOLEAN :
         /\ state_row' = IF ok THEN status_update(state_row, "keep") ELSE state_row
         /\ store_call' = status_call(ok)
    /\ UNCHANGED <<tracker_pc, stop_heartbeat, hb_pc>>
    /\ UNCHANGED <<watcher_vars, docs, drive_vars, walk_vars, auth_vars, more_vars>>

\* SupabaseStatusTracker.update_processing_status: it reads status_details and
\* calls update_status; an exception of the read is caught before the write
UpdateProcessingStatus ==
    /\ tracker_pc \in {"init", "started", "stopped", "stop_failed"}
    /\ \E readOk \in BOOLEAN :
       \E ok \in IF readOk THEN BOOLEAN ELSE {FALSE} :
         /\ state_row' = IF ok THEN status_update(state_row, "keep") ELSE state_row
         /\ store_call' = status_call(ok)
    /\ UNCHANGED <<tracker_pc, stop_heartbeat, hb_pc>>
    /\ UNCHANGED <<watcher_vars, docs, drive_vars, walk_vars, auth_vars, more_vars>>

\* SupabaseStatusTracker.stop up to its join: the flag is set
TrackerStopFlag ==
    /\ tracker_pc \in {"init", "started"}
    /\ tracker_pc' = "stopping"
    /\ stop_heartbeat' = TRUE
    /\ UNCHANGED <<hb_pc, store_call, state_row>>
    /\ UNCHANGED <<watcher_vars, docs, drive_vars, walk_vars, auth_vars, more_vars>>

\* SupabaseStatusTracker.stop from its join on: join(timeout=2) returns whether or
\* not the thread has ended, then the row is set offline; an exception of the
\* update is caught
TrackerStopWrite ==
    /\ tracker_pc = "stopping"
    /\ \E ok \in BOOLEAN :
         /\ state_row' = IF ok THEN status_update(state_row, "offline") ELSE state_row
         /\ tracker_pc' = IF ok THEN "stopped" ELSE "stop_failed"
         /\ store_call' = status_call(ok)
    /\ UNCHANGED <<stop_heartbeat, hb_pc>>
    /\ UNCHANGED <<watcher_vars, docs, drive_vars, walk_vars, auth_vars, more_vars>>

\* _heartbeat_loop, `while not self.stop_heartbeat`
HbTest ==
    /\ hb_pc = "test"
    /\ hb_pc' = IF stop_heartbeat THEN "ended" ELSE "sleep"
    /\ UNCHANGED <<tracker_pc, stop_heartbeat, store_call, state_row>>
    /\ UNCHANGED <<watcher_vars, docs, drive_vars, walk_vars, auth_vars, more_vars>>

\* _heartbeat_loop, time.sleep(30) returns
HbWake ==
    /\ hb_pc = "sleep"
    /\ hb_pc' = "woke"
    /\ UNCHANGED <<tracker_pc, stop_heartbeat, store_call, state_row>>
    /\ UNCHANGED <<watcher_vars, docs, drive_vars, walk_vars, auth_vars, more_vars>>

\* a loop that writes its heartbeat whatever the flag says
HbCheck_ignores_flag ==
    /\ hb_pc = "woke"
    /\ hb_pc' = "write"
    /\ UNCHANGED <<tracker_pc, stop_heartbeat, store_call, state_row>>
    /\ UNCHANGED <<watcher_vars, docs, drive_vars, walk_vars, auth_vars, more_vars>>

\* _heartbeat_loop, `if not self.stop_heartbeat` after the sleep
HbCheck ==
    /\ hb_pc = "woke"
    /\ hb_pc' = IF stop_heartbeat THEN "test" ELSE "write"
    /\ UNCHANGED <<tracker_pc, stop_heartbeat, store_call, state_row>>
    /\ UNCHANGED <<watcher_vars, docs, drive_vars, walk_vars, auth_vars, more_vars>>

\* _heartbeat_loop, the update of last_heartbeat; an exception is caught
HbWrite ==
    /\ hb_pc = "write"
    /\ hb_pc' = "test"
    /\ \E ok \in BOOLEAN :
         /\ state_row' = IF ok THEN status_update(state_row, "keep") ELSE state_row
         /\ store_call' = status_call(ok)
    /\ UNCHANGED <<tracker_pc, stop_heartbeat>>
    /\ UNCHANGED <<watcher_vars, docs, drive_vars, walk_vars, auth_vars, more_vars>>

\* the main loop saves its state: PipelineSyncManager.save_pipeline_state(K, t)
SaveState ==
    /\ tracker_pc \in {"init", "started", "stopped", "stop_failed"}
    /\ \E K \in StoreMaps, t \in StoreTimes, saveOk \in BOOLEAN :
         /\ state_row' = save_pipeline_state(state_row, K, t, saveOk)
         /\ store_call' = [op |-> "save", ok |-> saveOk,
                           has_saved |-> store_call.has_saved \/ saveOk,
                           saved_K |-> IF saveOk THEN K ELSE store_call.saved_K,
                           saved_t |-> IF saveOk THEN t ELSE store_call.saved_t,
                           loaded |-> NoLoad]
    /\ UNCHANGED <<tracker_pc, stop_heartbeat, hb_pc>>
    /\ UNCHANGED <<watcher_vars, docs, drive_vars, walk_vars, auth_vars, more_vars>>

\* PipelineSyncManager.load_pipeline_state
LoadState ==
    /\ tracker_pc \in {"init", "started", "stopped", "stop_failed"}
    /\ \E loadOk \in BOOLEAN :
         store_call' = [store_call EXCEPT !.op = "load", !.ok = loadOk,
                           !.loaded = load_pipeline_state(state_row, loadOk)]
    /\ UNCHANGED <<tracker_pc, stop_heartbeat, hb_pc, state_row>>
    /\ UNCHANGED <<watcher_vars, docs, drive_vars, walk_vars, auth_vars, more_vars>>

\* ------------------------------------------------- the Drive folder tree
Folders == {"root", "p", "q"}

\* the depth of nested calls at which Python raises RecursionError
RecursionLimit == 3

NoFolders == [f \in Folders |-> {}]
NoWalk == [done |-> FALSE, overflow |-> FALSE, expanded |-> [f \in Folders |-> 0]]

\* how often get_folder_contents(f) with d levels of recursion left calls
\* get_folder_contents(g), itself included: once if f = g, and what the calls for
\* the subfolders of f add (there is no set of folders already expanded)
RECURSIVE calls_of(_, _, _, _), calls_of_all(_, _, _, _)
calls_of(G, f, g, d) ==
    IF d = 0 THEN 0
    ELSE (IF f = g THEN 1 ELSE 0) + calls_of_all(G, G[f], g, d - 1)

calls_of_all(G, subfolders, g, d) ==
    IF subfolders = {} THEN 0
    ELSE LET c == CHOOSE x \in subfolders : TRUE
         IN  calls_of(G, c, g, d) + calls_of_all(G, subfolders \ {c}, g, d)

\* get_folder_contents(f) with d levels left nests deeper than the limit allows
RECURSIVE too_deep(_, _, _)
too_deep(G, f, d) ==
    IF d = 0 THEN TRUE ELSE \E c \in G[f] : too_deep(G, c, d - 1)

\* one get_folder_contents(folder_id) pass from the watched folder
Walk ==
    /\ ~walked.done
    /\ walked' = [done |-> TRUE,
                  overflow |-> too_deep(folders, "root", RecursionLimit),
                  expanded |-> [g \in Folders |->
                                  calls_of(folders, "root", g, RecursionLimit)]]
    /\ UNCHANGED folders
    /\ UNCHANGED <<local_vars, docs, drive_vars, status_vars, auth_vars, more_vars>>

\* a folder is given one more parent, or taken out of one
MoveFolder ==
    /\ \E f \in Folders :
       \E c \in Folders \ {f} :
         folders' = [folders EXCEPT ![f] = IF c \in @ THEN @ \ {c} ELSE @ \cup {c}]
    /\ walked' = NoWalk
    /\ UNCHANGED <<local_vars, docs, drive_vars, status_vars, auth_vars, more_vars>>

\* ------------------------------------------------- Drive authentication
\* what authenticate finds.  service_account_json: GOOGLE_DRIVE_CREDENTIALS_JSON is
\* "none" (not set), "parsed" (from_service_account_info accepts it) or
\* "unparsable"; token: the token file gives "none" (no usable file), "valid",
\* "expired", or "invalid" (not valid and not expired) credentials;
\* refresh_token: the credentials have one; refresh: what creds.refresh does;
\* credentials_file: the OAuth client file exists; console: a user and a browser
\* are there to answer the consent page of run_local_server
CredsEnvs ==
    [service_account_json : {"none", "parsed", "unparsable"},
     token : {"none", "valid", "expired", "invalid"}, refresh_token : BOOLEAN,
     refresh : {"ok", "RefreshError", "error"}, credentials_file : BOOLEAN,
     console : BOOLEAN]

NoCredsEnv ==
    [service_account_json |-> "none", token |-> "none", refresh_token |-> FALSE,
     refresh |-> "ok", credentials_file |-> FALSE, console |-> FALSE]

\* creds after lines 126-146: the service account credentials when the variable
\* parses, else what the token file gives
loaded_creds(env) ==
    IF env.service_account_json = "parsed" THEN "service_account" ELSE env.token

\* creds.valid: google.auth credentials are valid when they hold an access token
\* that has not expired.  from_service_account_info returns credentials that hold
\* no access token yet (they get one at their first refresh) and no expiry
creds_valid(creds) == creds = "valid"
creds_expired(creds) == creds = "expired"

\* GoogleDriveWatcher._oauth2_authenticate: it raises FileNotFoundError, or runs
\* the consent flow on a local server, which waits until a browser answers
oauth2_authenticate(env) ==
    IF ~env.credentials_file THEN "raised"
    ELSE IF env.console THEN "built_interactive" ELSE "blocked"

\* GoogleDriveWatcher.authenticate: the credentials the service is built from
\* ("built_service_account", "built_loaded", "built_refreshed",
\* "built_interactive"), "raised", or "blocked"
authenticate(env) ==
    LET creds == loaded_creds(env)
    IN  IF creds_valid(creds)
          THEN IF creds = "service_account" THEN "built_service_account"
               ELSE "built_loaded"
        ELSE IF creds_expired(creds) /\ env.refresh_token
           THEN IF env.refresh = "ok" THEN "built_refreshed"
                ELSE IF env.refresh = "RefreshError" THEN oauth2_authenticate(env)
                ELSE "raised"
           ELSE oauth2_authenticate(env)

Authenticate ==
    /\ auth_result = "none"
    /\ auth_result' = authenticate(creds_env)
    /\ UNCHANGED creds_env
    /\ UNCHANGED <<local_vars, docs, drive_vars, status_vars, walk_vars, more_vars>>

\* tokens expire, files and consoles come and go
CredsChange ==
    /\ creds_env' \in CredsEnvs \ {creds_env}
    /\ auth_result' = "none"
    /\ UNCHANGED <<local_vars, docs, drive_vars, status_vars, walk_vars, more_vars>>

\* ------------------------------------- one Drive cycle, statement by statement
\* GoogleDriveWatcher.check_for_changes taken apart at the points where the Drive
\* folder can change or the process can end: the listing of get_changes, line 261,
\* line 264, and the rest of the call.  Every request succeeds here; the failures
\* of a cycle are in DriveCheckForChanges
not_step_vars == <<local_vars, status_vars, walk_vars, auth_vars, mcp_vars,
                   pipeline_status_vars, validate_call>>

\* get_changes up to line 258: the listing query with the cursor of this process
StepList ==
    /\ drive_pc \in {"single", "loop"}
    /\ step = "idle"
    /\ step' = "listed"
    /\ listed_files' = [i \in drive_listing(drive, last_check_time) |-> drive[i]]
    /\ service' = TRUE
    /\ drive_lastOp' = "other"
    /\ drive_cyc' = NoDriveCycle
    /\ drive_exit_code' = Running
    /\ UNCHANGED <<drive, now, last_check_time, cfg_last_check_time, drive_known_files,
                   drive_state_row, drive_pc, drive_signalled, docs, indexed>>
    /\ UNCHANGED not_step_vars

\* line 261: self.last_check_time = datetime.now(timezone.utc)
StepSetCursor ==
    /\ step = "listed"
    /\ step' = "cursor"
    /\ last_check_time' = now
    /\ UNCHANGED <<drive, now, service, cfg_last_check_time, drive_known_files,
                   drive_state_row, drive_pc, drive_lastOp, drive_cyc, drive_exit_code,
                   drive_signalled, docs, listed_files, indexed>>
    /\ UNCHANGED not_step_vars

\* line 264: save_last_check_time writes the cursor to config.json
StepSaveCursor ==
    /\ step = "cursor"
    /\ step' = "saved"
    /\ cfg_last_check_time' = last_check_time
    /\ UNCHANGED <<drive, now, service, last_check_time, drive_known_files,
                   drive_state_row, drive_pc, drive_lastOp, drive_cyc, drive_exit_code,
                   drive_signalled, docs, listed_files, indexed>>
    /\ UNCHANGED not_step_vars

\* check_for_changes from line 429 on: check_for_deleted_files, then process_file
\* for every listed file, which downloads the content the file has by then and
\* records the modifiedTime the listing gave, then the deletions
StepProcess ==
    /\ step = "saved"
    /\ step' = "idle"
    /\ listed_files' = EmptyMap
    /\ LET listed == DOMAIN listed_files
           deleted == check_for_deleted_files(drive_known_files, drive,
                                              DOMAIN drive_known_files, {})
           trashedL == {i \in listed : listed_files[i].trashed}
           ingested == {i \in listed \ trashedL : drive_supported(i) /\ drive[i].mtime # 0}
           D1 == delete_document_by_file_id(process_file_for_rag(docs, ingested), trashedL)
           K1 == drive_known_after_process(drive_known_files, listed_files, listed)
       IN  /\ docs' = delete_document_by_file_id(D1, deleted)
           /\ drive_known_files' = known_after_delete(K1, deleted)
           /\ indexed' = [i \in DriveFiles |->
                            IF i \in trashedL \cup deleted THEN 0
                            ELSE IF i \in ingested THEN drive[i].mtime
                            ELSE indexed[i]]
    /\ drive_pc' = IF drive_pc = "single" THEN "done" ELSE "loop"
    /\ drive_exit_code' = IF drive_pc = "single" THEN single_run_exit(0) ELSE Running
    /\ drive_lastOp' = "other"
    /\ drive_cyc' = NoDriveCycle
    /\ UNCHANGED <<drive, now, service, last_check_time, cfg_last_check_time,
                   drive_state_row, drive_signalled>>
    /\ UNCHANGED not_step_vars

\* the process is ended from outside at any statement of the call
StepCrash ==
    /\ drive_pc \in {"single", "loop"}
    /\ drive_pc' = "down"
    /\ step' = "idle"
    /\ listed_files' = EmptyMap
    /\ service' = FALSE
    /\ drive_known_files' = EmptyMap
    /\ drive_lastOp' = "other"
    /\ drive_cyc' = NoDriveCycle
    /\ drive_exit_code' = Running
    /\ drive_signalled' = FALSE
    /\ UNCHANGED <<drive, now, last_check_time, cfg_last_check_time, drive_state_row,
                   docs, indexed>>
    /\ UNCHANGED not_step_vars

\* -------------------------------------------------------- MCP manager
\* MCPManager with one server.  process is config._process: "none", "running", or
\* "dead" (a Popen whose poll() is not None)
not_mcp_vars ==
    <<local_vars, docs, drive_vars, status_vars, walk_vars, auth_vars, step_vars,
      pipeline_status_vars, validate_call>>

\* the most retry_attempts a configuration has here (MCPServerConfigModel admits 0..10)
MaxRetry == 2

McpConfigs ==
    [transport : {"sse", "stdio"}, retry_attempts : 0..MaxRetry, process_command : BOOLEAN]

NoServer ==
    [present |-> FALSE, transport |-> "sse", retry_attempts |-> 0,
     process_command |-> FALSE, status |-> "disconnected", error_count |-> 0,
     process |-> "none"]

new_server(config) ==
    [present |-> TRUE, transport |-> config.transport,
     retry_attempts |-> config.retry_attempts,
     process_command |-> config.process_command,
     status |-> "disconnected", error_count |-> 0, process |-> "none"]

NoMcpCall ==
    [op |-> "none", attempts |-> 0, sleeps |-> 0, result |-> "none", returned |-> "none",
     error_before |-> 0, restart |-> FALSE]

\* a connection loop that goes round once more than retry_attempts
RECURSIVE create_connection_once_more(_, _, _)
create_connection_once_more(config, reachable, attempt) ==
    IF attempt > config.retry_attempts
      THEN [result |-> "None", attempts |-> 0, sleeps |-> 0]
    ELSE IF config.transport = "sse" /\ ~reachable[attempt]
      THEN IF attempt < config.retry_attempts
             THEN LET r == create_connection_once_more(config, reachable, attempt + 1)
                  IN  [r EXCEPT !.attempts = @ + 1, !.sleeps = @ + 1]
             ELSE [result |-> "raised", attempts |-> 1, sleeps |-> 0]
    ELSE [result |-> "connection", attempts |-> 1, sleeps |-> 0]

\* MCPManager._create_connection from loop index attempt on.  reachable[k] = the GET
\* that tests an SSE server at attempt k answers 200; the other transports are not
\* tested.  result: "connection", "raised", or "None" (the loop ran out, line 525);
\* attempts, sleeps: the attempts made and the retry_delay pauses taken
RECURSIVE create_connection(_, _, _)
create_connection(config, reachable, attempt) ==
    IF attempt >= config.retry_attempts
      THEN [result |-> "None", attempts |-> 0, sleeps |-> 0]
    ELSE IF config.transport = "sse" /\ ~reachable[attempt]
      THEN IF attempt < config.retry_attempts - 1
             THEN LET r == create_connection(config, reachable, attempt + 1)
                  IN  [r EXCEPT !.attempts = @ + 1, !.sleeps = @ + 1]
             ELSE [result |-> "raised", attempts |-> 1, sleeps |-> 0]
    ELSE [result |-> "connection", attempts |-> 1, sleeps |-> 0]

\* the answers of the test GET at each attempt of one call: the first is what the
\* server answers when the call starts
Reachables == [0..MaxRetry -> BOOLEAN]

\* MCPManager.start_server for the server s.  popenOk = the subprocess, when one is
\* started, is still running after two seconds
StartServerFrom(s, popenOk, reachable) ==
    LET spawn == s.process_command /\ s.process # "running"
        conn == create_connection(s, reachable, 0)
        call == [NoMcpCall EXCEPT !.op = "start", !.error_before = s.error_count]
    IN  IF spawn /\ ~popenOk
          THEN /\ servers' = [s EXCEPT !.process = "dead", !.status = "error",
                                       !.error_count = @ + 1]
               /\ connections' = FALSE
               /\ health_check_tasks' = FALSE
               /\ mcp_call' = [call EXCEPT !.returned = "False"]
        ELSE LET s1 == [s EXCEPT !.process = IF spawn THEN "running" ELSE @]
                 done == [call EXCEPT !.attempts = conn.attempts, !.sleeps = conn.sleeps,
                                      !.result = conn.result]
             IN  IF conn.result = "connection"
                   THEN /\ servers' = [s1 EXCEPT !.status = "connected", !.error_count = 0]
                        /\ connections' = TRUE
                        /\ health_check_tasks' = TRUE
                        /\ mcp_call' = [done EXCEPT !.returned = "True"]
                 ELSE IF conn.result = "raised"
                   THEN /\ servers' = [s1 EXCEPT !.status = "error", !.error_count = @ + 1]
                        /\ connections' = FALSE
                        /\ health_check_tasks' = FALSE
                        /\ mcp_call' = [done EXCEPT !.returned = "False"]
                 ELSE /\ servers' = s1
                      /\ connections' = FALSE
                      /\ health_check_tasks' = FALSE
                      /\ mcp_call' = [done EXCEPT !.returned = "False"]

\* the answer at the last attempt made is what the server answers afterwards
StartServerWith(config) ==
    \E popenOk \in BOOLEAN, reachable \in Reachables :
       /\ reachable[0] = server_up
       /\ StartServerFrom(new_server(config), popenOk, reachable)
       /\ server_up' = reachable[IF mcp_call'.attempts > 0 THEN mcp_call'.attempts - 1
                                 ELSE 0]

\* MCPManager.initialize, or add_server on a manager with no server: the
\* configuration is read and the server, enabled and auto_start, is started
AddServer ==
    /\ ~servers.present
    /\ \E config \in McpConfigs : StartServerWith(config)
    /\ UNCHANGED not_mcp_vars

\* MCPManager.remove_server: stop_server, called from outside the health-check
\* task, then the configuration is dropped
RemoveServer ==
    /\ servers.present
    /\ servers' = NoServer
    /\ connections' = FALSE
    /\ health_check_tasks' = FALSE
    /\ mcp_call' = [NoMcpCall EXCEPT !.op = "stop", !.returned = "True"]
    /\ UNCHANGED server_up
    /\ UNCHANGED not_mcp_vars

\* restart_server called by the health-check task itself.  stop_server first cancels
\* the task of this server, which is the running one, and deletes its entry (lines
\* 301-303); the cancellation arrives at the first await that suspends.  That is
\* connection.__aexit__ when it suspends (inStop: the connection stays registered,
\* the subprocess is not reaped and _status is left as it is), else asyncio.sleep(1)
\* of restart_server, after stop_server has completed.  CancelledError is not an
\* Exception: it leaves restart_server before start_server and ends the loop at
\* line 566
restart_from_loop(s, inStop) ==
    /\ health_check_tasks' = FALSE
    /\ connections' = (connections /\ inStop)
    /\ servers' = IF inStop THEN s
                  ELSE [s EXCEPT !.status = "disconnected", !.process = "none"]

\* one pass of MCPManager._health_check_loop after its sleep
HealthCheck ==
    /\ servers.present
    /\ health_check_tasks
    /\ \E inStop \in BOOLEAN :
         IF servers.process = "dead"
           THEN /\ restart_from_loop([servers EXCEPT !.status = "unhealthy"], inStop)
                /\ mcp_call' = [NoMcpCall EXCEPT !.op = "health", !.restart = TRUE]
         ELSE LET s1 == IF servers.transport # "sse" THEN servers
                        ELSE IF server_up
                          THEN [servers EXCEPT !.status = "connected", !.error_count = 0]
                        ELSE [servers EXCEPT !.status = "unhealthy",
                                             !.error_count = @ + 1]
              IN  IF s1.error_count >= 3
                    THEN /\ restart_from_loop(s1, inStop)
                         /\ mcp_call' = [NoMcpCall EXCEPT !.op = "health",
                                                          !.restart = TRUE]
                  ELSE /\ servers' = s1
                       /\ UNCHANGED <<connections, health_check_tasks>>
                       /\ mcp_call' = [NoMcpCall EXCEPT !.op = "health"]
    /\ UNCHANGED server_up
    /\ UNCHANGED not_mcp_vars

\* the subprocess of the server exits
ProcessDies ==
    /\ servers.present
    /\ servers.process = "running"
    /\ servers' = [servers EXCEPT !.process = "dead"]
    /\ mcp_call' = NoMcpCall
    /\ UNCHANGED <<connections, health_check_tasks, server_up>>
    /\ UNCHANGED not_mcp_vars

\* the server's URL starts or stops answering
ServerFlips ==
    /\ servers.present
    /\ server_up' = ~server_up
    /\ mcp_call' = NoMcpCall
    /\ UNCHANGED <<servers, connections, health_check_tasks>>
    /\ UNCHANGED not_mcp_vars

\* --------------------------------------------------- status endpoint data
\* PipelineStatus of status_server.py.  An entry of files_processing is the name of
\* its file_info; an entry of files_completed and files_failed is the name with
\* its completed_at stamp
not_pipeline_status_vars ==
    <<local_vars, docs, drive_vars, status_vars, walk_vars, auth_vars, step_vars, mcp_vars,
      validate_call>>

\* the completed and the failed entries that complete_file keeps
KeepCompleted == 10
KeepFailed == 5

\* the most entries files_processing gets, and the most files moved out of it
MaxProcessing == 2
MaxMoves == 11

\* "x" is a file that gets processed, "y" a name that was never added
StatusNames == {"x", "y"}

NoData ==
    [files_processing |-> <<>>, files_completed |-> <<>>, files_failed |-> <<>>,
     total_processed |-> 0, total_failed |-> 0]

NoStatusOp == [op |-> "none", filename |-> "x", success |-> TRUE]

\* s[-n:] of Python for n > 0
last(s, n) == IF Len(s) > n THEN SubSeq(s, Len(s) - n + 1, Len(s)) ELSE s

\* PipelineStatus.add_processing_file
add_processing_file(d, filename) ==
    [d EXCEPT !.files_processing = Append(@, filename)]

\* a complete_file that never shortens its lists
complete_file_keeps_all(d, filename, success, t) ==
    LET processing == SelectSeq(d.files_processing, LAMBDA f : f # filename)
        removed == SelectSeq(d.files_processing, LAMBDA f : f = filename)
        file_info == [name |-> filename, completed_at |-> t]
    IN  IF removed = <<>> THEN [d EXCEPT !.files_processing = processing]
        ELSE IF success
          THEN [d EXCEPT !.files_processing = processing,
                         !.files_completed = Append(@, file_info),
                         !.total_processed = @ + 1]
        ELSE [d EXCEPT !.files_processing = processing,
                       !.files_failed = Append(@, file_info),
                       !.total_failed = @ + 1]

\* PipelineStatus.complete_file at time t
complete_file(d, filename, success, t) ==
    LET processing == SelectSeq(d.files_processing, LAMBDA f : f # filename)
        removed == SelectSeq(d.files_processing, LAMBDA f : f = filename)
        file_info == [name |-> removed[1], completed_at |-> t]
    IN  IF removed = <<>> THEN [d EXCEPT !.files_processing = processing]
        ELSE IF success
          THEN [d EXCEPT !.files_processing = processing,
                         !.files_completed = last(Append(@, file_info), KeepCompleted),
                         !.total_processed = @ + 1]
        ELSE [d EXCEPT !.files_processing = processing,
                       !.files_failed = last(Append(@, file_info), KeepFailed),
                       !.total_failed = @ + 1]

AddProcessingFile ==
    /\ Len(data.files_processing) < MaxProcessing
    /\ data' = add_processing_file(data, "x")
    /\ status_op' = [op |-> "add", filename |-> "x", success |-> TRUE]
    /\ UNCHANGED moves
    /\ UNCHANGED not_pipeline_status_vars

CompleteFile ==
    /\ moves < MaxMoves
    /\ \E filename \in StatusNames, success \in BOOLEAN :
         /\ data' = complete_file(data, filename, success, moves + 1)
         /\ status_op' = [op |-> "complete", filename |-> filename, success |-> success]
    /\ moves' = IF data'.files_processing # data.files_processing THEN moves + 1 ELSE moves
    /\ UNCHANGED not_pipeline_status_vars

\* ------------------------------------------------ validate_sync_state
\* the maps validate_sync_state is called with: id -> modified time
SyncMaps == UNION {[D -> 1..MaxTime] : D \in SUBSET LocalIds}

\* as_dict: the values of the map are dicts that hold the time under 'modifiedTime',
\* not the times themselves
NoValidateCall ==
    [op |-> "none", known_files |-> EmptyMap, current_files |-> EmptyMap,
     known_as_dict |-> FALSE, current_as_dict |-> FALSE,
     validation |-> [added |-> {}, modified |-> {}, deleted |-> {}]]

\* PipelineSyncManager.validate_sync_state; lines 241-242 take the same time out of
\* either form of value
validate_sync_state(known, current) ==
    [added |-> DOMAIN current \ DOMAIN known,
     deleted |-> DOMAIN known \ DOMAIN current,
     modified |-> {file_id \in DOMAIN known \cap DOMAIN current :
                      known[file_id] # current[file_id]}]

ValidateSyncState ==
    /\ \E known \in SyncMaps, current \in SyncMaps, kd \in BOOLEAN, cd \in BOOLEAN :
         validate_call' = [op |-> "validate", known_files |-> known,
                           current_files |-> current,
                           known_as_dict |-> kd, current_as_dict |-> cd,
                           validation |-> validate_sync_state(known, current)]
    /\ UNCHANGED <<local_vars, docs, drive_vars, status_vars, walk_vars, auth_vars,
                   step_vars, mcp_vars, pipeline_status_vars>>

InitLocal ==
    /\ fs = [i \in LocalFiles |-> 0]
    /\ dirExists = TRUE
    /\ pc = "down"
    /\ known_files = EmptyMap
    /\ initialized = FALSE
    /\ state_row = NoRow
    /\ lastOp = "other"
    /\ cyc = NoCycle
    /\ purged = EmptyMap
    /\ exit_code = Running
    /\ signalled = FALSE

InitDrive ==
    /\ drive = [i \in DriveFiles |-> NoFile]
    /\ now = 0
    /\ service = FALSE
    /\ last_check_time = 0
    /\ cfg_last_check_time = 0
    /\ drive_known_files = EmptyMap
    /\ drive_state_row = NoRow
    /\ drive_pc = "down"
    /\ drive_lastOp = "other"
    /\ drive_cyc = NoDriveCycle
    /\ drive_exit_code = Running
    /\ drive_signalled = FALSE

InitStatus ==
    /\ tracker_pc = "none"
    /\ stop_heartbeat = FALSE
    /\ hb_pc = "none"
    /\ store_call = NoCall

InitWalk ==
    /\ folders = NoFolders
    /\ walked = NoWalk

InitAuth ==
    /\ creds_env = NoCredsEnv
    /\ auth_result = "none"

InitSteps ==
    /\ step = "idle"
    /\ listed_files = EmptyMap
    /\ indexed = [i \in DriveFiles |-> 0]

InitMcp ==
    /\ servers = NoServer
    /\ connections = FALSE
    /\ health_check_tasks = FALSE
    /\ server_up = FALSE
    /\ mcp_call = NoMcpCall

InitPipelineStatus ==
    /\ data = NoData
    /\ moves = 0
    /\ status_op = NoStatusOp

InitValidate == validate_call = NoValidateCall

Init ==
    /\ InitLocal
    /\ docs = {}
    /\ InitDrive
    /\ InitStatus
    /\ InitWalk
    /\ InitAuth
    /\ InitSteps
    /\ InitMcp
    /\ InitPipelineStatus
    /\ InitValidate

Next ==
    \/ Start
    \/ WatchStart
    \/ CheckForChanges
    \/ Stop
    \/ WriteFile
    \/ RemoveFile
    \/ DirLost
    \/ DirBack

Spec == Init /\ [][Next]_vars

\* the local pipeline over a directory with unsupported and hidden files
ScanNext ==
    \/ Start
    \/ WatchStart
    \/ CheckForChanges
    \/ Stop
    \/ WriteAnyFile
    \/ RemoveAnyFile
    \/ DirLost
    \/ DirBack

SpecScan == Init /\ [][ScanNext]_vars

DriveNext ==
    \/ DriveStart
    \/ DriveCheckForChanges
    \/ DriveStop
    \/ Tick
    \/ DriveWrite
    \/ DriveTrash
    \/ DriveDelete

SpecDrive == Init /\ [][DriveNext]_vars

\* the Drive pipeline over a folder in which more files change than one page holds
DriveWriteAll == DriveWriteIn(DriveFiles)

DrivePagesNext ==
    \/ DriveStart
    \/ DriveCheckForChanges
    \/ Tick
    \/ DriveWriteAll

SpecDrivePages == Init /\ [][DrivePagesNext]_vars

\* the Drive pipeline over a folder with an item of an unsupported type
DriveTypesNext ==
    \/ DriveStart
    \/ DriveCheckForChanges
    \/ DriveStop
    \/ Tick
    \/ DriveWriteAny
    \/ DriveTrash
    \/ DriveDelete

SpecDriveTypes == Init /\ [][DriveTypesNext]_vars

\* one pipeline at a time, over one file, with the signals a process can get
OneLocalFile == {"a"}
OneDriveFile == {"g"}
ModesNext ==
    \/ /\ InitDrive
       /\ \/ Start
          \/ WatchStart
          \/ CheckForChanges
          \/ Signal
          \/ Stop
          \/ WriteFileIn(OneLocalFile)
          \/ RemoveFileIn(OneLocalFile)
    \/ /\ InitLocal
       /\ \/ DriveStart
          \/ DriveCheckForChanges
          \/ DriveSignal
          \/ DriveStop
          \/ Tick
          \/ DriveWriteIn(OneDriveFile)

SpecModes == Init /\ [][ModesNext]_vars

\* both pipelines running at once against the one documents table, each over one
\* file of its own source
BothNext ==
    \/ Start
    \/ CheckForChanges
    \/ WriteFileIn(OneLocalFile)
    \/ DriveStart
    \/ DriveCheckForChanges
    \/ Tick
    \/ DriveWriteIn(OneDriveFile)

SpecBoth == Init /\ [][BothNext]_vars

\* the Drive pipeline with its cycle taken statement by statement, over one file
StepsNext ==
    \/ DriveStart
    \/ StepList
    \/ StepSetCursor
    \/ StepSaveCursor
    \/ StepProcess
    \/ StepCrash
    \/ Tick
    \/ DriveWriteIn(OneDriveFile)

SpecSteps == Init /\ [][StepsNext]_vars

\* a started call runs on to its end unless the process is ended, the main loop
\* starts the next call after its sleep, and a process that ended is started again
\* with its environment set;
\* a process that is ended again and again still completes a call now and then
SpecStepsLive ==
    /\ SpecSteps
    /\ WF_vars(DriveStart /\ drive_pc' # "down")
    /\ SF_vars(StepList)
    /\ SF_vars(StepSetCursor)
    /\ SF_vars(StepSaveCursor)
    /\ SF_vars(StepProcess)

\* the MCP manager with one server
McpNext ==
    \/ AddServer
    \/ RemoveServer
    \/ HealthCheck
    \/ ProcessDies
    \/ ServerFlips

SpecMcp == Init /\ [][McpNext]_vars

\* the health-check task, while it lives, wakes from its sleep and makes a pass
SpecMcpLive == SpecMcp /\ WF_vars(HealthCheck)

\* the status data under add_processing_file and complete_file calls
PipelineStatusNext ==
    \/ AddProcessingFile
    \/ CompleteFile

SpecPipelineStatus == Init /\ [][PipelineStatusNext]_vars

\* validate_sync_state called with every pair of maps
ValidateNext == ValidateSyncState

SpecValidate == Init /\ [][ValidateNext]_vars

\* the state row under the main loop's saves and loads, the status tracker and
\* its heartbeat thread
StatusNext ==
    \/ ProcessStarts
    \/ ProcessEnds
    \/ TrackerStart
    \/ UpdateStatus
    \/ UpdateProcessingStatus
    \/ TrackerStopFlag
    \/ TrackerStopWrite
    \/ HbTest
    \/ HbWake
    \/ HbCheck
    \/ HbWrite
    \/ SaveState
    \/ LoadState

SpecStatus == Init /\ [][StatusNext]_vars

\* the heartbeat thread and the thread that runs stop() are scheduled again and
\* again, and time.sleep and join(timeout) return
SpecStatusLive ==
    /\ SpecStatus
    /\ WF_vars(HbTest) /\ WF_vars(HbWake) /\ WF_vars(HbCheck) /\ WF_vars(HbWrite)
    /\ WF_vars(TrackerStopWrite)

WalkNext ==
    \/ Walk
    \/ MoveFolder

SpecWalk == Init /\ [][WalkNext]_vars

AuthNext ==
    \/ Authenticate
    \/ CredsChange

SpecAuth == Init /\ [][AuthNext]_vars

\* ------------------------------------------------------------ properties
\* a step that is one LocalFilesWatcher.check_for_changes call
LocalCheckStep == pc \in {"single", "loop"} /\ lastOp' = "check" /\ UNCHANGED drive_vars

\* the ids a walk of the watch directory finds
ScanIds == DOMAIN scan_directory(fs, dirExists)

\* C1: when the watch directory is missing or unreachable at scan time, a
\* check_for_changes cycle calls delete_document_by_file_id for no known file and
\* removes no entry from known_files.
C1_NoFabricatedDeletions ==
    [][(LocalCheckStep /\ ~dirExists)
         => /\ cyc'.deleteCalls = {}
            /\ DOMAIN known_files \subseteq DOMAIN known_files']_vars

\* C2: when the source listing of the cycle failed (the watch directory is
\* unreachable), sync_deletions deletes no document from the Document Store.
C2_ReconcilerHonorsFailedListing ==
    (lastOp = "check" /\ ~dirExists)
        => /\ DOMAIN cyc.orphanCalls = {}
           /\ cyc.sync.deleted_success = 0

\* C3 as stated: sync_deletions calls the delete handler exactly once for every
\* file_id of the Document Store that is not in current_file_ids and for no other
\* id, a failing delete does not stop the others, and
\* deleted_success + deleted_failed = orphaned_found.
C3_OrphanDeletesAsStated ==
    lastOp = "check" =>
        LET orphans == cyc.atSync \ DOMAIN known_files
        IN  /\ cyc.orphanCalls = [i \in orphans |-> 1]
            /\ docs = cyc.atSync \ (orphans \ cyc.orphanFailed)
            /\ cyc.sync.deleted_success + cyc.sync.deleted_failed = cyc.sync.orphaned_found

\* C3 amended: when the read of the Document Store's file ids succeeds,
\* sync_deletions calls the delete handler exactly once for every file_id of the
\* store that is not in current_file_ids and for no other id, every orphan whose
\* delete does not raise is removed whatever happens to the others, and
\* deleted_success + deleted_failed = orphaned_found = the number of orphans; when
\* the read fails the handler is called for no id and the three counters are 0.
C3_OrphanDeletes ==
    lastOp = "check" =>
        LET orphans == IF cyc.readOk THEN cyc.atSync \ DOMAIN known_files ELSE {}
        IN  /\ cyc.orphanCalls = [i \in orphans |-> 1]
            /\ cyc.orphanFailed \subseteq orphans
            /\ docs = cyc.atSync \ (orphans \ cyc.orphanFailed)
            /\ cyc.sync.orphaned_found = Cardinality(orphans)
            /\ cyc.sync.deleted_failed = Cardinality(cyc.orphanFailed)
            /\ cyc.sync.deleted_success + cyc.sync.deleted_failed = cyc.sync.orphaned_found

\* a reconciliation with two orphans: the delete of one raised, the other was deleted
C3_Witness ==
    /\ lastOp = "check"
    /\ cyc.readOk
    /\ cyc.sync.orphaned_found = 2
    /\ cyc.sync.deleted_failed = 1
    /\ cyc.sync.deleted_success = 1

NoSourceChange ==
    /\ \A i \in ScanIds : i \in DOMAIN known_files /\ fs[i] <= known_files[i]
    /\ \A i \in DOMAIN known_files : i \in ScanIds

LocalStartStep ==
    pc \in {"down", "done"} /\ pc' \in {"single", "watch"} /\ UNCHANGED drive_vars

\* C6: when a PipelineState with a non-empty known-file map was persisted, a
\* restarted LocalFilesWatcher loads that map and skips the initial full scan
\* (initialized is true), on every startup path.
C6_RestartLoadsState ==
    [][(LocalStartStep /\ state_row.present /\ state_row.known_files # EmptyMap)
         => /\ known_files' = state_row.known_files
            /\ initialized']_vars

\* C7: for each pipeline, at the end of every check_for_changes call the persisted
\* known-file map equals the in-memory known_files map.
C7_StatePersistedAfterCycle ==
    /\ lastOp = "check" => load_pipeline_state(state_row, TRUE).known_files = known_files
    /\ (drive_lastOp = "check" /\ ~drive_cyc.failed)
          => load_pipeline_state(drive_state_row, TRUE).known_files = drive_known_files

C9_DeletedFileRemovedAsStated ==
    [][(LocalCheckStep /\ dirExists)
         => \A i \in DOMAIN known_files :
               fs[i] = 0 => (i \notin docs' /\ i \notin DOMAIN known_files')]_vars

\* C9 amended: after a known file is deleted from the watch directory, one cycle
\* calls delete_document_by_file_id for it; if the call succeeds every Document
\* Store entry with that file_id and the id's entry in known_files are removed, if
\* it raises both are kept; the cycle right after a successful delete, with no
\* source change in between, issues no delete for that id, and it reports
\* files_deleted = 0 and errors = 0 if the first cycle reported errors = 0.
C9_Deletion ==
    [][/\ (LocalCheckStep /\ dirExists)
            => \A i \in DOMAIN known_files :
                  fs[i] = 0 =>
                     /\ i \in cyc'.deleteCalls
                     /\ IF i \in cyc'.deleteFailed
                          THEN /\ i \in DOMAIN known_files'
                               /\ (i \in docs') = (i \in docs)
                          ELSE /\ i \notin DOMAIN known_files'
                               /\ i \notin docs'
       /\ (lastOp = "check" /\ LocalCheckStep)
            => /\ \A i \in cyc.deleteCalls \ cyc.deleteFailed :
                     /\ i \notin cyc'.deleteCalls
                     /\ i \notin DOMAIN cyc'.orphanCalls
               /\ cyc.stats.errors = 0
                    => (cyc'.stats.files_deleted = 0 /\ cyc'.stats.errors = 0)]_vars

\* a cycle that found a known file gone from the existing directory and deleted it
C9_Witness ==
    /\ lastOp = "check" /\ dirExists
    /\ cyc.deleteCalls # {} /\ cyc.deleteFailed = {}
    /\ cyc.stats.files_deleted = 1
    /\ cyc.deleteCalls \cap docs = {}

\* C10: when the listing of a Drive cycle contains a file with trashed = true and
\* no call of the cycle raised, the file's documents are deleted and at the end of
\* the cycle the file id is absent from known_files.
C10_TrashedFileForgotten ==
    (drive_lastOp = "check" /\ ~drive_cyc.failed /\ drive_cyc.stats.errors = 0)
        => \A i \in drive_cyc.listed :
              drive[i].trashed => (i \notin docs /\ i \notin DOMAIN drive_known_files)

\* a step that is the initial scan of LocalFilesWatcher.watch_for_changes
InitialScanStep ==
    pc = "watch" /\ ~initialized /\ pc' = "loop" /\ UNCHANGED drive_vars

\* C11: whenever ingestion of a file fails, in a check cycle or in the initial scan
\* of watch_for_changes, the file's entry in known_files is exactly as it was before
\* the attempt: absent if it was absent, the old modified_time if it was present.
C11_FailedIngestionKeepsWatermark ==
    [][(LocalCheckStep \/ InitialScanStep)
         => \A i \in cyc'.procCalls \ cyc'.ingested :
               /\ (i \in DOMAIN known_files') = (i \in DOMAIN known_files)
               /\ i \in DOMAIN known_files => known_files'[i] = known_files[i]]_vars

\* C12: a listed Drive file whose download, text extraction or store write fails in
\* a cycle is not recorded in known_files with its new modified_time and is not
\* counted in files_processed.
C12_DriveFailureDeferred ==
    (drive_lastOp = "check" /\ ~drive_cyc.failed)
        => LET failedIds == drive_cyc.downloads \ drive_cyc.ingested
           IN  /\ \A i \in failedIds :
                     ~(i \in DOMAIN drive_known_files /\ drive_known_files[i] = drive[i].mtime)
               /\ drive_cyc.stats.files_processed
                     <= Cardinality(drive_cyc.listed \ failedIds)

\* C13: in one cycle every changed file is attempted and every removed id is
\* deleted whatever happens to the others, and each failure increments the cycle's
\* errors counter: the local cycle counts every file whose process_file returned
\* False and every delete that raised, the Drive cycle counts (at least) every file
\* whose store write failed.
C13_FailuresIsolatedAndCounted ==
    /\ lastOp = "check"
          => cyc.stats.errors = Cardinality(cyc.procCalls \ cyc.ingested)
                                + Cardinality(cyc.deleteFailed)
    /\ (drive_lastOp = "check" /\ ~drive_cyc.failed)
          => /\ \A i \in drive_cyc.deleted : drive_cyc.deleteCalls[i] >= 1
             /\ drive_cyc.stats.errors >= Cardinality(drive_cyc.ragCalls \ drive_cyc.ingested)

\* C15: a listed Drive item whose MIME type is not supported is never downloaded,
\* extracted or ingested, is not added to known_files and is not counted in the
\* cycle's files_processed.
C15_UnsupportedDriveFileIgnored ==
    (drive_lastOp = "check" /\ ~drive_cyc.failed)
        => LET unsupported == {i \in drive_cyc.listed :
                                  ~drive_supported(i) /\ ~drive[i].trashed}
           IN  /\ unsupported \cap drive_cyc.downloads = {}
               /\ unsupported \cap drive_cyc.ragCalls = {}
               /\ unsupported \cap DOMAIN drive_known_files = {}
               /\ drive_cyc.stats.files_processed
                     <= Cardinality(drive_cyc.listed \ unsupported)

\* C16: when text extraction of an added or modified file yields empty text, the
\* file is skipped as a no-op: process_file_for_rag is not called for it and the
\* cycle's errors counter is not incremented for it.
C16_EmptyTextIsNoError ==
    lastOp = "check"
        => /\ cyc.noText \cap cyc.ragCalls = {}
           /\ cyc.stats.errors = Cardinality((cyc.procCalls \ cyc.ingested) \ cyc.noText)
                                 + Cardinality(cyc.deleteFailed)

\* a step that is one GoogleDriveWatcher.check_for_changes call whose listing succeeded
DriveCheckStep ==
    /\ drive_pc \in {"single", "loop"}
    /\ drive_lastOp' = "check"
    /\ ~drive_cyc'.failed
    /\ UNCHANGED local_vars

\* C18: a known Drive file is reported as removed only when it is trashed or gone;
\* a known file that exists and is not trashed, whatever its lookup returns, is not
\* reported as deleted, stays in known_files and keeps its documents.
C18_RemovalOnlyOnSignal ==
    [][DriveCheckStep
         => \A i \in DOMAIN drive_known_files :
               (drive[i].mtime # 0 /\ ~drive[i].trashed)
                  => /\ i \notin drive_cyc'.deleted
                     /\ i \in DOMAIN drive_known_files'
                     /\ i \in docs => i \in docs']_vars

\* the files scan_directory has to skip
SkippedFiles == {i \in LocalFiles : is_hidden(i) \/ ~is_supported_file(i)}

\* C14: a file whose MIME type is not supported, and any hidden file, never appears
\* in a scan result, is never passed to extraction or ingestion, never enters
\* known_files and is never counted in files_processed.
C14_UnsupportedNeverScanned ==
    /\ SkippedFiles \cap DOMAIN scan_directory(fs, dirExists) = {}
    /\ SkippedFiles \cap cyc.procCalls = {}
    /\ SkippedFiles \cap cyc.ragCalls = {}
    /\ SkippedFiles \cap DOMAIN known_files = {}
    /\ SkippedFiles \cap docs = {}
    /\ lastOp = "check"
          => cyc.stats.files_processed = Cardinality(cyc.ingested \ SkippedFiles)

\* a cycle over a directory holding a supported, an unsupported and a hidden file
\* that ingested the supported one
C14_Witness ==
    /\ lastOp = "check" /\ dirExists
    /\ fs["a"] # 0 /\ fs["x"] # 0 /\ fs["y"] # 0
    /\ cyc.ingested = {"a"}
    /\ cyc.stats.files_processed = 1

\* C17: get_changes classifies the ids of known map K and scan S into added (in S,
\* not in K), modified (in both, modified_time strictly greater in S) and removed
\* (in K, not in S); the three are pairwise disjoint, the changed files are added
\* \cup modified, the deleted ids are removed, an id in both with an equal or older
\* modified_time is in none of them, and K changes only where the cycle then
\* ingests or deletes.
C17_GetChangesClassifies ==
    [][LocalCheckStep
         => LET S == [i \in ScanIds |-> fs[i]]
                K == known_files
                added == {i \in DOMAIN S : i \notin DOMAIN K}
                modified == {i \in DOMAIN S \cap DOMAIN K : S[i] > K[i]}
                removed == {i \in DOMAIN K : i \notin DOMAIN S}
            IN  /\ cyc'.procCalls = added \cup modified
                /\ cyc'.deleteCalls = removed
                /\ added \cap modified = {} /\ added \cap removed = {}
                /\ modified \cap removed = {}
                /\ \A i \in DOMAIN S \cap DOMAIN K :
                      S[i] <= K[i] => i \notin cyc'.procCalls \cup cyc'.deleteCalls
                /\ \A i \in DOMAIN K \ (cyc'.ingested \cup cyc'.deleteCalls) :
                      i \in DOMAIN known_files' /\ known_files'[i] = K[i]]_vars

\* a cycle that found one file modified and another removed
C17_Witness ==
    /\ lastOp = "check"
    /\ cyc.reprocessed # {}
    /\ cyc.deleteCalls # {}
    /\ cyc.procCalls \cap cyc.deleteCalls = {}

\* C19: every added or modified file is processed before the reconciler runs, and
\* a file ingested in the cycle is in the current-id set handed to sync_deletions:
\* its documents are in the store when sync_deletions starts, the delete handler
\* is not called for it and its documents are there at the end of the cycle.
C19_IngestedNotOrphaned ==
    lastOp = "check"
        => /\ cyc.ingested \subseteq cyc.atSync
           /\ cyc.ingested \subseteq DOMAIN known_files
           /\ cyc.ingested \cap DOMAIN cyc.orphanCalls = {}
           /\ cyc.ingested \subseteq docs

\* a cycle that ingested one file and whose reconciler deleted an orphan
C19_Witness ==
    /\ lastOp = "check"
    /\ cyc.ingested # {}
    /\ cyc.sync.deleted_success = 1
    /\ cyc.ingested \subseteq docs

\* C20 as stated: after a file's deletion has been handled, if a file with the same
\* id is in a later scan, the next cycle treats it as a new add and ingests it.
C20_ReappearedFileIngestedAsStated ==
    [][LocalCheckStep
         => \A i \in DOMAIN purged \cap ScanIds :
               /\ i \in cyc'.procCalls /\ i \notin cyc'.reprocessed
               /\ i \in cyc'.ingested /\ i \in docs']_vars

\* C20 amended: after a file's deletion has been handled (id removed from
\* known_files), if a file with the same id is in a later scan with any
\* modified_time, the next cycle hands it to process_file as a new file; if
\* process_file succeeds its documents are in the store and known_files holds the
\* modified_time of the scan, if it fails the id stays out of known_files and the
\* following cycle treats it as new again.
C20_ReappearedFileIsNew ==
    [][LocalCheckStep
         => /\ DOMAIN purged \cap DOMAIN known_files = {}
            /\ \A i \in DOMAIN purged \cap ScanIds :
                  /\ i \in cyc'.procCalls /\ i \notin cyc'.reprocessed
                  /\ IF i \in cyc'.ingested
                       THEN i \in docs' /\ known_files'[i] = fs[i]
                       ELSE i \notin DOMAIN known_files' /\ i \in DOMAIN purged']_vars

\* a cycle that ingested, as a new file, a file deleted at watermark 2 that came
\* back with modified_time 1
C20_Witness ==
    /\ lastOp = "check"
    /\ "a" \in DOMAIN cyc.readded /\ cyc.readded["a"] = 2
    /\ "a" \in cyc.ingested /\ "a" \notin cyc.reprocessed
    /\ known_files["a"] = 1 /\ "a" \in docs
\* a step that is a whole check_for_changes call ending in its outer except clause
DriveFailedStep ==
    /\ drive_pc \in {"single", "loop"}
    /\ drive_lastOp' = "check"
    /\ drive_cyc'.failed
    /\ UNCHANGED local_vars

\* C26: a Drive cycle whose authentication or listing fails reports at least one
\* error, downloads, ingests and removes nothing, and leaves the known files, the
\* cursor in memory, the persisted cursor and the documents as they were, so
\* the listing of the next cycle still holds every change the failed one missed
C26_FailedListingChangesNothing ==
    [][DriveFailedStep =>
         /\ drive_cyc'.stats.errors >= 1
         /\ drive_cyc'.stats.files_processed = 0
         /\ drive_cyc'.stats.files_deleted = 0
         /\ drive_cyc'.downloads = {} /\ drive_cyc'.ragCalls = {}
         /\ drive_cyc'.deleted = {}
         /\ \A i \in DriveFiles : drive_cyc'.deleteCalls[i] = 0
         /\ UNCHANGED <<drive_known_files, last_check_time, cfg_last_check_time, docs>>
         /\ drive_listing(drive', last_check_time') = drive_listing(drive, last_check_time)
      ]_vars

\* the listing failed (authentication had succeeded) while there were changes to
\* list, known files and documents
C26_Witness ==
    /\ drive_lastOp = "check"
    /\ drive_cyc.failed /\ ~drive_cyc.authFailed
    /\ drive_listing(drive, last_check_time) # {}
    /\ drive_known_files # EmptyMap
    /\ docs # {}
    /\ last_check_time > 0


\* C22: missing or unusable Drive credentials stop the process at startup: no
\* check cycle fails in authenticate and leaves the process in the continuous loop
C22_BadCredentialsNeverCycle ==
    (drive_lastOp = "check" /\ drive_cyc.authFailed) => drive_pc # "loop"

\* C27: the listing of a Drive cycle that moves the cursor holds every file
\* modified after the cursor, however many files match
C27_ListingComplete ==
    [][DriveCheckStep => drive_cyc'.listed = drive_listing(drive, last_check_time)]_vars

\* a step that is one GoogleDriveWatcher.check_for_changes call, failed or not
DriveAnyCheckStep ==
    /\ drive_pc \in {"single", "loop"}
    /\ drive_lastOp' = "check"
    /\ UNCHANGED local_vars

\* C21: in single-run mode each pipeline runs one check_for_changes cycle and exits
\* with code 0 if the cycle counted no error and with code 1 if it counted some; it
\* never enters the continuous loop and runs no second cycle; exit code 2 is the
\* code of a start that failed, and of nothing else
C21_SingleRunExit ==
    [][/\ (pc = "single" /\ LocalCheckStep)
            => /\ pc' = "done"
               /\ exit_code' = IF cyc'.stats.errors = 0 THEN 0 ELSE 1
       /\ pc = "single" => pc' \in {"single", "done", "down"}
       /\ (pc = "done" /\ lastOp' = "check") => UNCHANGED <<lastOp, cyc>>
       /\ (exit_code' = 2 /\ UNCHANGED drive_vars)
            => pc \in {"down", "done"} /\ pc' = "down"
       /\ (drive_pc = "single" /\ DriveAnyCheckStep)
            => /\ drive_pc' = "done"
               /\ drive_exit_code' = IF drive_cyc'.stats.errors = 0 THEN 0 ELSE 1
       /\ drive_pc = "single" => drive_pc' \in {"single", "done", "down"}
       /\ (drive_pc = "done" /\ drive_lastOp' = "check")
            => UNCHANGED <<drive_lastOp, drive_cyc>>
       /\ (drive_exit_code' = 2 /\ UNCHANGED local_vars)
            => drive_pc \in {"down", "done"} /\ drive_pc' = "down"
      ]_vars

\* a single run that ingested a file and counted an error has exited with code 1
C21_Witness ==
    /\ pc = "done"
    /\ lastOp = "check"
    /\ cyc.stats.errors > 0
    /\ exit_code = 1

\* C23: once a continuous pipeline has handled SIGTERM or SIGINT, no
\* check_for_changes cycle begins in that process
C23_NoCycleAfterSignal ==
    [][/\ (signalled /\ pc \in {"watch", "loop"}) => ~LocalCheckStep
       /\ (drive_signalled /\ drive_pc = "loop") => ~DriveAnyCheckStep
      ]_vars

\* C24: no operation of the status tracker (start, stop, update_status,
\* update_processing_status, the heartbeat loop) writes known_files or
\* last_check_time of the state row: the two columns change in a
\* save_pipeline_state call only, and under every interleaving the persisted
\* known_files is what the latest successful save wrote (empty before the first)
C24_TrackerLeavesStateColumns ==
    /\ [](state_row.known_files = IF store_call.has_saved THEN store_call.saved_K
                                   ELSE EmptyMap)
    /\ [][(\/ state_row'.known_files # state_row.known_files
            \/ state_row'.last_check_time # state_row.last_check_time)
            => store_call'.op = "save"]_vars

\* the tracker has set a row offline whose known_files and last_check_time a save
\* had written, after its heartbeat had written too
C24_Witness ==
    /\ store_call.op = "status" /\ store_call.ok
    /\ store_call.has_saved
    /\ store_call.saved_K # EmptyMap
    /\ state_row.last_check_time # NoneT
    /\ state_row.server_status = "offline"
    /\ state_row.last_heartbeat > 0
    /\ hb_pc = "ended"

\* C25 as stated: once stop() has set the flag the heartbeat loop starts no further
\* heartbeat write and ends, and stop() returns, always leaving the row offline
C25_StopAlwaysLeavesOffline ==
    /\ [][(stop_heartbeat /\ hb_pc # "write") => hb_pc' # "write"]_vars
    /\ [][(tracker_pc = "stopping" /\ tracker_pc' \in {"stopped", "stop_failed"})
            => state_row'.server_status = "offline"]_vars
    /\ (stop_heartbeat ~> hb_pc \in {"none", "ended"})
    /\ (tracker_pc = "stopping" ~> tracker_pc # "stopping")

\* C25: once stop() has set the flag the heartbeat loop starts no further heartbeat
\* write and ends after its current sleep, and stop() returns whether or not the
\* thread has ended; it leaves the row offline when there is a row and its update
\* does not raise
C25_HeartbeatCancellable ==
    /\ [][(stop_heartbeat /\ hb_pc # "write") => hb_pc' # "write"]_vars
    /\ [][(tracker_pc = "stopping" /\ tracker_pc' = "stopped" /\ state_row.present)
            => state_row'.server_status = "offline"]_vars
    /\ (stop_heartbeat ~> hb_pc \in {"none", "ended"})
    /\ (tracker_pc = "stopping" ~> tracker_pc # "stopping")

\* stop() has returned with the row offline, and the thread, which was asleep when
\* the flag was set, has ended
C25_Witness ==
    /\ tracker_pc = "stopped"
    /\ stop_heartbeat
    /\ hb_pc = "ended"
    /\ state_row.server_status = "offline"
    /\ state_row.last_heartbeat > 0

\* C30 as stated: after save_pipeline_state(K, t) returned True, load_pipeline_state
\* returns known_files = K and last_check_time = t
C30_LoadReturnsWhatWasSaved ==
    (store_call.op = "save" /\ store_call.ok)
        => load_pipeline_state(state_row, TRUE) =
               [known_files |-> store_call.saved_K, last_check_time |-> store_call.saved_t]

\* C30: after save_pipeline_state(K, t) returned True, load_pipeline_state returns
\* known_files = K, and as last_check_time the ISO text of t, or what was stored
\* before when t is None; there is never more than one row, and exactly one after a
\* save; a load that fails returns the empty map and None
C30_StoreRoundTrip ==
    /\ [](store_call.has_saved
            => /\ load_pipeline_state(state_row, TRUE).known_files = store_call.saved_K
               /\ store_call.saved_t # NoneT
                    => load_pipeline_state(state_row, TRUE).last_check_time
                         = isoformat(store_call.saved_t)
               /\ state_row.rows = 1)
    /\ [](state_row.rows <= 1)
    /\ [](store_call.op = "load"
            => store_call.loaded = load_pipeline_state(state_row, store_call.ok)
               /\ (~store_call.ok => store_call.loaded = NoLoad))
    /\ [][(store_call'.op = "save" /\ store_call'.ok /\ store_call'.saved_t = NoneT)
            => state_row'.last_check_time = state_row.last_check_time]_vars

\* a load after a save with t = None returned the map of that save and the time
\* text of an earlier one
C30_Witness ==
    /\ store_call.op = "load" /\ store_call.ok
    /\ store_call.has_saved
    /\ store_call.saved_K # EmptyMap
    /\ store_call.saved_t = NoneT
    /\ store_call.loaded.known_files = store_call.saved_K
    /\ store_call.loaded.last_check_time # NoneT

\* C28: one get_folder_contents pass expands no folder more than once and its
\* recursion ends without exceeding the recursion limit, for every folder graph
C28_NoFolderExpandedTwice ==
    walked.done => /\ ~walked.overflow
                   /\ \A f \in Folders : walked.expanded[f] <= 1

\* C29: when the cached token is expired and its refresh fails with RefreshError,
\* authenticate re-authenticates interactively where a console is there, raises
\* where none is, and never builds the service from the credentials whose refresh
\* failed
C29_AuthFallback ==
    (/\ auth_result # "none"
     /\ creds_env.token = "expired" /\ creds_env.refresh_token
     /\ creds_env.refresh # "ok")
        => /\ auth_result \notin {"built_loaded", "built_refreshed"}
           /\ creds_env.refresh = "RefreshError"
                => /\ (creds_env.console /\ creds_env.credentials_file)
                        => auth_result = "built_interactive"
                   /\ ~creds_env.console => auth_result = "raised"

\* C31: with a Drive pipeline and a local pipeline on one documents table, no local
\* check_for_changes cycle (its orphan reconciliation included) deletes the
\* documents of a file that the Drive pipeline ingested and that is still in Drive
C31_LocalCycleKeepsDriveDocuments ==
    [][LocalCheckStep =>
          \A i \in DriveIds :
             (/\ i \in docs
              /\ i \in DOMAIN drive_known_files
              /\ drive[i].mtime # 0 /\ ~drive[i].trashed) => i \in docs']_vars

\* C32: the Drive watcher never misses a change for good: a supported file of the
\* watched folder whose latest content is not the one its documents were made from
\* gets that content ingested by a later cycle, whatever modifications and process
\* restarts fall between the statements of get_changes
C32_EveryChangeIngested ==
    \A i \in OneDriveFile :
       (drive[i].mtime # 0 /\ indexed[i] # drive[i].mtime)
           ~> (indexed[i] = drive[i].mtime)

\* C33: when GOOGLE_DRIVE_CREDENTIALS_JSON parses, authenticate builds the service
\* from the service account credentials, without the interactive flow and without
\* the OAuth client file; the token file and the interactive flow are used only
\* when no service account credentials are there
C33_ServiceAccountFirst ==
    auth_result # "none" =>
       /\ creds_env.service_account_json = "parsed"
             => auth_result = "built_service_account"
       /\ auth_result \in {"built_loaded", "built_refreshed", "built_interactive",
                           "blocked"}
             => creds_env.service_account_json # "parsed"

\* the server is connected, with a connection and a health-check task
Recovered ==
    /\ servers.status = "connected"
    /\ connections
    /\ health_check_tasks
    /\ servers.process # "dead"

\* C34: after the health-check loop finds the subprocess dead or counts a third
\* error and restarts the server, the server is, if its URL keeps answering and
\* nobody removes it, eventually connected again with a connection registered and a
\* health-check task running
C34_AutoRecovery ==
    (mcp_call.op = "health" /\ mcp_call.restart)
        ~> (Recovered \/ ~server_up \/ ~servers.present)

\* a start_server call that got as far as _create_connection
StartCalled == mcp_call.op = "start" /\ mcp_call.result # "none"

\* C35 as stated: _create_connection makes at most retry_attempts attempts with a
\* retry_delay pause between consecutive attempts; when no attempt gives a
\* connection it raises, and start_server sets the status to ERROR, adds one to the
\* error count, registers no connection and returns False
C35_FailedAttemptsRaiseAsStated ==
    StartCalled =>
       /\ mcp_call.attempts <= servers.retry_attempts
       /\ mcp_call.sleeps = (IF mcp_call.attempts = 0 THEN 0 ELSE mcp_call.attempts - 1)
       /\ mcp_call.result # "connection"
             => /\ mcp_call.result = "raised"
                /\ servers.status = "error"
                /\ servers.error_count = mcp_call.error_before + 1
                /\ ~connections
                /\ mcp_call.returned = "False"

\* C35: the same for a server with retry_attempts >= 1; with retry_attempts = 0
\* _create_connection makes no attempt and returns None without raising, and
\* start_server returns False, registers no connection and leaves the status and
\* the error count as they were
C35_BoundedRetries ==
    StartCalled =>
       /\ mcp_call.attempts <= servers.retry_attempts
       /\ mcp_call.sleeps = (IF mcp_call.attempts = 0 THEN 0 ELSE mcp_call.attempts - 1)
       /\ mcp_call.result = "connection" => connections /\ mcp_call.returned = "True"
       /\ mcp_call.result = "raised"
             => /\ servers.retry_attempts >= 1
                /\ mcp_call.attempts = servers.retry_attempts
                /\ servers.status = "error"
                /\ servers.error_count = mcp_call.error_before + 1
                /\ ~connections
                /\ mcp_call.returned = "False"
       /\ mcp_call.result = "None"
             => /\ servers.retry_attempts = 0
                /\ mcp_call.attempts = 0
                /\ servers.status = "disconnected"
                /\ servers.error_count = mcp_call.error_before
                /\ ~connections
                /\ mcp_call.returned = "False"
       /\ (servers.retry_attempts >= 1 /\ mcp_call.result # "connection")
             => mcp_call.result = "raised"

C35_Witness ==
    /\ StartCalled
    /\ mcp_call.result = "raised"
    /\ mcp_call.attempts = 2
    /\ mcp_call.sleeps = 1
    /\ servers.status = "error"

\* the names in files_processing
ProcessingNames(d) == {d.files_processing[k] : k \in 1..Len(d.files_processing)}

\* a complete_file call that finds its file in files_processing
MoveStep(success) ==
    /\ status_op'.op = "complete"
    /\ status_op'.success = success
    /\ status_op'.filename \in ProcessingNames(data)

\* C36: under add_processing_file and complete_file calls files_completed holds at
\* most 10 entries and files_failed at most 5, the most recent ones; a completed
\* file is no longer in files_processing; and total_processed / total_failed grow
\* by exactly one per file moved from processing to completed / failed
C36_BoundedHistory ==
    /\ [](/\ Len(data.files_completed) <= 10
          /\ Len(data.files_failed) <= 5
          /\ Len(data.files_completed) = (IF data.total_processed < 10
                                           THEN data.total_processed ELSE 10)
          /\ Len(data.files_failed) = (IF data.total_failed < 5
                                        THEN data.total_failed ELSE 5)
          /\ data.total_processed + data.total_failed = moves
          /\ status_op.op = "complete"
                => status_op.filename \notin ProcessingNames(data))
    /\ [][/\ MoveStep(TRUE)
             => /\ data'.total_processed = data.total_processed + 1
                /\ data'.total_failed = data.total_failed
                /\ data'.files_failed = data.files_failed
                /\ data'.files_completed =
                     last(Append(data.files_completed,
                                 [name |-> status_op'.filename,
                                  completed_at |-> moves']), 10)
          /\ MoveStep(FALSE)
             => /\ data'.total_failed = data.total_failed + 1
                /\ data'.total_processed = data.total_processed
                /\ data'.files_completed = data.files_completed
                /\ data'.files_failed =
                     last(Append(data.files_failed,
                                 [name |-> status_op'.filename,
                                  completed_at |-> moves']), 5)
          /\ ~(MoveStep(TRUE) \/ MoveStep(FALSE))
             => /\ data'.total_processed = data.total_processed
                /\ data'.total_failed = data.total_failed
                /\ data'.files_completed = data.files_completed
                /\ data'.files_failed = data.files_failed]_vars

\* an eleventh file has been completed and the oldest entry is gone
C36_Witness ==
    /\ data.total_processed = 11
    /\ Len(data.files_completed) = 10
    /\ data.files_completed[1].completed_at = 2
    /\ status_op.op = "complete"

\* C37: validate_sync_state(known, current) gives added = the ids in current and not
\* in known, deleted = the ids in known and not in current, and modified = the ids
\* in both whose modified_time in current is strictly greater than in known; added
\* and modified together are the changed files of LocalFilesWatcher.get_changes
\* for the same maps, and deleted its deleted ids
C37_ValidateMatchesGetChanges ==
    validate_call.op = "validate" =>
       LET K == validate_call.known_files
           S == validate_call.current_files
           v == validate_call.validation
       IN  /\ v.added = {i \in DOMAIN S : i \notin DOMAIN K}
           /\ v.deleted = {i \in DOMAIN K : i \notin DOMAIN S}
           /\ v.modified = {i \in DOMAIN K \cap DOMAIN S : S[i] > K[i]}
           /\ v.added \cup v.modified = changed_files(K, S)
           /\ v.deleted = deleted_file_ids(K, S)

\* C38: when the read of the documents table fails during reconciliation,
\* get_all_document_file_ids gives the empty set, find_orphaned_documents finds no
\* orphan, sync_deletions calls the delete handler zero times and returns
\* orphaned_found = deleted_success = deleted_failed = 0, and no document is
\* deleted by the reconciliation
C38_FailedReadDeletesNothing ==
    (lastOp = "check" /\ ~cyc.readOk)
        => /\ get_all_document_file_ids(cyc.atSync, cyc.readOk) = {}
           /\ find_orphaned_documents(cyc.atSync, DOMAIN known_files, cyc.readOk) = {}
           /\ DOMAIN cyc.orphanCalls = {}
           /\ cyc.orphanFailed = {}
           /\ cyc.sync = ZeroSync
           /\ cyc.stats.orphaned_deleted = 0
           /\ docs = cyc.atSync

\* the read failed in a cycle that had orphaned documents in the table
C38_Witness ==
    /\ lastOp = "check"
    /\ ~cyc.readOk
    /\ cyc.atSync \ DOMAIN known_files # {}
    /\ docs = cyc.atSync

\* C39: in a local watcher process the modified_time stored for an id never
\* decreases while the id stays in known_files, and every entry of known_files was
\* loaded from the persisted state when the process started or was set by a
\* successful ingestion of the file at exactly that modified_time
C39_KnownImpliesIndexed ==
    [][IF LocalStartStep
         THEN \A i \in DOMAIN known_files' :
                 /\ i \in DOMAIN state_row.known_files
                 /\ known_files'[i] = state_row.known_files[i]
         ELSE \A i \in DOMAIN known_files' :
                 \/ i \in DOMAIN known_files /\ known_files'[i] = known_files[i]
                 \/ /\ i \in cyc'.ingested
                    /\ known_files'[i] = fs[i]
                    /\ i \in DOMAIN known_files => known_files'[i] >= known_files[i]]_vars

====
